---------------------------- MODULE Spec2Model ----------------------------
(***************************************************************************)
(* Model of the BrandFrame-Studio generative pipelines                     *)
(*   backend/app/agents/creative_agent.py   (ad-hoc creative)              *)
(*   backend/app/agents/product_agent.py    (product poster)               *)
(*   backend/app/agents/template_agent.py   (template-based poster)        *)
(*   backend/app/api/v1/routes.py           (the HTTP handlers)            *)
(*   backend/app/service/brand_service.py   (brand lookup fallback)        *)
(*                                                                         *)
(* Python strings are TLA+ strings and are handled character by character  *)
(* (Len, SubSeq, \o), Python dicts are functions/records, Python lists are *)
(* sequences, and Optional values are <<>> (None) or <<v>>.                *)
(***************************************************************************)
EXTENDS Naturals, Sequences, FiniteSets, TLC

VARIABLES kind, state, pc, raised, calls, log, response

vars == <<kind, state, pc, raised, calls, log, response>>

(***************************************************************************)
(* Character-level string helpers (str methods and the two regexes).       *)
(***************************************************************************)
WS == {" ", "\t", "\n", "\r"}

Quotes == {"'", "\""}

MinOf(S) == CHOOSE m \in S : \A k \in S : m <= k

\* F applied to the value of v, with v evaluated once
Bind(v, F(_)) == CHOOSE r \in {F(x) : x \in {v}} : TRUE

Char(s, i) == IF i >= 1 /\ i <= Len(s) THEN SubSeq(s, i, i) ELSE ""

Slice(s, i, j) == IF i > j THEN "" ELSE SubSeq(s, i, j)

StartsWithAt(s, i, p) ==
    /\ i >= 1
    /\ i + Len(p) - 1 <= Len(s)
    /\ Slice(s, i, i + Len(p) - 1) = p

StartsWith(s, p) == StartsWithAt(s, 1, p)

\* str.find from position i (1-based); 0 when the substring does not occur
IndexOf(s, p, i) ==
    LET hits == {k \in i..Len(s) : StartsWithAt(s, k, p)}
    IN  IF hits = {} THEN 0 ELSE MinOf(hits)

Contains(s, p) == IndexOf(s, p, 1) # 0

\* str.strip()
Strip(s) ==
    LET keep == {k \in 1..Len(s) : Char(s, k) \notin WS}
    IN  IF keep = {} THEN ""
        ELSE Slice(s, MinOf(keep), CHOOSE m \in keep : \A k \in keep : k <= m)

\* last index of the maximal run of characters outside stop that starts at
\* i (i - 1 when the run is empty)
RunEnd(s, i, stop) ==
    LET bad == {k \in i..Len(s) : Char(s, k) \in stop}
    IN  IF bad = {} THEN Len(s) ELSE MinOf(bad) - 1

\* first non-whitespace position at or after i
SkipWs(s, i) == RunEnd(s, i, {Char(s, k) : k \in 1..Len(s)} \ WS) + 1

\* re.search(r'(https?://[^\s"\']+)', s): the match starting at i, "" if none
UrlMatchAt(s, i) ==
    LET pl == IF StartsWithAt(s, i, "http://") THEN 7
              ELSE IF StartsWithAt(s, i, "https://") THEN 8 ELSE 0
        e  == RunEnd(s, i + pl, WS \cup Quotes)
    IN  IF pl > 0 /\ e >= i + pl THEN Slice(s, i, e) ELSE ""

re_search_url(s) ==
    LET hits == {k \in 1..Len(s) : UrlMatchAt(s, k) # ""}
    IN  IF hits = {} THEN <<>> ELSE <<UrlMatchAt(s, MinOf(hits))>>

\* re.search(r'(data:image/[^;]+;base64,<payload>+)', s) where <payload> is
\* any character outside stop: the match starting at i, "" if none
DataMatchAt(s, i, stop) ==
    LET a == i + Len("data:image/")
        b == RunEnd(s, a, {";"})
        c == b + 1 + Len(";base64,")
        e == RunEnd(s, c, stop)
    IN  IF /\ StartsWithAt(s, i, "data:image/")
           /\ b >= a
           /\ StartsWithAt(s, b + 1, ";base64,")
           /\ e >= c
        THEN Slice(s, i, e) ELSE ""

re_search_data(s, stop) ==
    LET hits == {k \in 1..Len(s) : DataMatchAt(s, k, stop) # ""}
    IN  IF hits = {} THEN <<>> ELSE <<DataMatchAt(s, MinOf(hits), stop)>>


(***************************************************************************)
(* Python values that occur in model responses: str and dict.              *)
(*   PyStr("x")                      the str 'x'                           *)
(*   PyDict(<< <<"k", v>>, ... >>)   the dict {'k': v, ...} (insertion     *)
(*                                   order kept, as in Python)             *)
(***************************************************************************)
PyStr(s) == [t |-> "str", s |-> s]

PyDict(items) == [t |-> "dict", items |-> items]

\* dict.get(key): <<>> when the key is absent, the last binding otherwise
\* (a later duplicate key of a dict display overwrites an earlier one)
PyGet(d, key) ==
    LET hits == {k \in 1..Len(d.items) : d.items[k][1] = key}
    IN  IF hits = {} THEN <<>>
        ELSE <<d.items[CHOOSE m \in hits : \A k \in hits : k <= m][2]>>

\* repr() of a str without backslashes or control characters
ReprStr(s) ==
    IF ~Contains(s, "'") \/ Contains(s, "\"") THEN "'" \o s \o "'"
    ELSE "\"" \o s \o "\""

RECURSIVE PyRepr(_)
RECURSIVE ReprItems(_, _)
\* str(part) of a non-str part of a multimodal response: the dict's repr
PyRepr(v) ==
    IF v.t = "str" THEN ReprStr(v.s)
    ELSE "{" \o ReprItems(v.items, 1) \o "}"

ReprItems(items, k) ==
    IF k > Len(items) THEN ""
    ELSE ReprStr(items[k][1]) \o ": " \o PyRepr(items[k][2])
         \o (IF k < Len(items) THEN ", " ELSE "")
         \o ReprItems(items, k + 1)

(***************************************************************************)
(* ast.literal_eval, restricted to the literals the model responses use:   *)
(* string literals in either quote (no escapes, no prefixes) and dict      *)
(* displays whose keys are strings and whose values are strings or dicts.  *)
(* Anything else is a parse failure, which both callers swallow.           *)
(***************************************************************************)
LiteralDepth == 3

ParseFail == [ok |-> FALSE, val |-> PyStr(""), next |-> 0]

ParseOk(v, n) == [ok |-> TRUE, val |-> v, next |-> n]

ParseString(s, i) ==
    LET q == Char(s, i)
        j == IndexOf(s, q, i + 1)
    IN  IF q \in Quotes /\ j # 0 THEN ParseOk(PyStr(Slice(s, i + 1, j - 1)), j + 1)
        ELSE ParseFail

RECURSIVE ParseValue(_, _, _)
RECURSIVE ParseItems(_, _, _, _)
ParseValue(s, i, fuel) ==
    IF Char(s, i) \in Quotes THEN ParseString(s, i)
    ELSE IF Char(s, i) = "{" /\ fuel > 0
         THEN Bind(SkipWs(s, i + 1), LAMBDA j :
                  IF Char(s, j) = "}" THEN ParseOk(PyDict(<<>>), j + 1)
                  ELSE ParseItems(s, j, <<>>, fuel))
         ELSE ParseFail

\* the items of a dict display from position i on, up to its closing brace:
\* key, colon, value, then a comma (more items, or a trailing one) or the brace
ParseItems(s, i, acc, fuel) ==
    Bind(ParseString(s, i), LAMBDA key :
    Bind(SkipWs(s, key.next), LAMBDA colon :
        IF ~key.ok \/ Char(s, colon) # ":" THEN ParseFail
        ELSE
    Bind(ParseValue(s, SkipWs(s, colon + 1), fuel - 1), LAMBDA val :
        IF ~val.ok THEN ParseFail
        ELSE
    Bind(SkipWs(s, val.next), LAMBDA after :
    Bind(Append(acc, <<key.val.s, val.val>>), LAMBDA items :
        IF Char(s, after) = "}" THEN ParseOk(PyDict(items), after + 1)
        ELSE IF Char(s, after) # "," THEN ParseFail
        ELSE
    Bind(SkipWs(s, after + 1), LAMBDA more :
        IF Char(s, more) = "}" THEN ParseOk(PyDict(items), more + 1)
        ELSE ParseItems(s, more, items, fuel)))))))

\* <<v>> when the whole text is one literal, <<>> when literal_eval raises
literal_eval(s) ==
    Bind(Strip(s), LAMBDA t :
    Bind(ParseValue(t, 1, LiteralDepth), LAMBDA r :
        IF r.ok /\ r.next = Len(t) + 1 THEN <<r.val>> ELSE <<>>))

(***************************************************************************)
(* Collaborators.  Each call of a collaborator has one of a few outcomes,  *)
(* chosen by the action that runs the stage.                               *)
(***************************************************************************)
\* descriptions of the faults a collaborator call can raise (str(e))
Faults == {"quota exceeded", "deadline"}

\* ChatGoogleGenerativeAI(...) raised / llm.invoke(...) raised /
\* llm.invoke(...) returned a message with this content
CtorFault(f) == [o |-> "ctor_fault", fault |-> f]

InvokeFault(f) == [o |-> "invoke_fault", fault |-> f]

Content(c) == [o |-> "content", content |-> c]

\* a multimodal content: a list of str parts and dict parts
PyList(parts) == [t |-> "list", parts |-> parts]

\* Firestore: doc_ref.get() of users/{uid}/brandkits/{bid}, and the
\* collection-group query of BrandService.get_brandkit
DocFound(d) == [o |-> "found", doc |-> d]

DocMissing == [o |-> "missing"]

DocFault(f) == [o |-> "fault", fault |-> f]

\* dict.get(key, default) on a dict modelled as a function
Get(d, key, default) == IF key \in DOMAIN d THEN d[key] ELSE default

BrandAcme ==
    [name |-> "Acme", colors |-> <<"#111111", "#222222">>,
     logoUrl |-> "https://cdn/logo.png", tone |-> "Bold",
     assetUrls |-> <<"https://cdn/a0.png">>]

BrandBare == [name |-> "Bare", colors |-> <<"#333333">>]

BrandDocs == {BrandAcme, BrandBare}

\* BrandService.get_brandkit: the first document of the query, else the mock
MockBrand(brandkit_id) ==
    [id |-> brandkit_id, name |-> "Tesco Finest (Mock - Fallback)",
     colors |-> <<"#00539F", "#D6001C", "#FFFFFF">>,
     logo_url |-> "https://upload.wikimedia.org/wikipedia/en/thumb/b/b0/Tesco_Logo.svg/1200px-Tesco_Logo.svg.png",
     fonts |-> <<"Tesco Modern", "Arial">>,
     tone |-> "Professional, Fresh, Quality",
     assets |-> <<>>]

\* get_brandkit without the mock record
get_brandkit_no_mock(brandkit_id, query) ==
    IF query.o = "found" /\ DOMAIN query.doc # {} THEN query.doc
    ELSE [id |-> brandkit_id]

get_brandkit(brandkit_id, query) ==
    IF query.o = "found" /\ DOMAIN query.doc # {} THEN query.doc
    ELSE MockBrand(brandkit_id)

\* the store reads a brand stage makes: the document of the user's brandkit
\* and, when that gave no document, the collection-group query of get_brandkit
Lookups(st, direct, query) ==
    <<[node |-> "fetch_brand_data",
       path |-> "users/" \o st.user_id \o "/brandkits/" \o st.brandkit_id,
       out |-> direct]>>
    \o (IF direct.o = "found" THEN <<>>
        ELSE <<[node |-> "fetch_brand_data",
                path |-> "brandkits where id == " \o st.brandkit_id,
                out |-> query]>>)

\* what a stage function does: return a partial state, or raise
Ret(update) == [raise |-> <<>>, update |-> update]

Raise(f) == [raise |-> <<f>>, update |-> <<>>]

(***************************************************************************)
(* Ad-hoc creative pipeline (creative_agent.py).                           *)
(***************************************************************************)
CreativePlaceholder == "https://placehold.co/1080x1080/000000/FFF?text=Gemini+Image+Generated"

CreativeErrorImage == "https://placehold.co/1080x1080?text=Error+Generating"

\* bool(v) of a str or dict
Truthy(v) == IF v.t = "str" THEN v.s # "" ELSE Len(v.items) > 0

creative_fetch_brand_data(st, direct, query) ==
    Ret([brand_data |->
            IF direct.o = "found" THEN direct.doc
            ELSE get_brandkit(st.brandkit_id, query)])

\* refine_prompt without its fallback: a faulting model call fails the run
creative_refine_prompt_no_fallback(st, llm) ==
    IF llm.o = "ctor_fault" THEN Raise(llm.fault)
    ELSE IF llm.o = "invoke_fault" THEN Ret([refined_prompt |-> "", status |-> "failed"])
    ELSE Ret([refined_prompt |-> llm.content])

creative_refine_prompt(st, llm) ==
    IF llm.o = "ctor_fault" THEN Raise(llm.fault)
    ELSE IF llm.o = "invoke_fault" THEN Ret([refined_prompt |-> st.prompt])
    ELSE Ret([refined_prompt |-> llm.content])

\* lines 109-117: the parts joined and stripped
creative_content_text(content) ==
    LET RECURSIVE Join(_, _)
        Join(parts, k) ==
            IF k > Len(parts) THEN ""
            ELSE (IF parts[k].t = "str" THEN parts[k].s ELSE PyRepr(parts[k]))
                 \o Join(parts, k + 1)
    IN  IF content.t = "list" THEN Strip(Strip(Join(content.parts, 1)))
        ELSE IF content.t = "str" THEN Strip(content.s)
        ELSE Strip(PyRepr(content))

\* lines 121-134: the stringified-dictionary step; PyStr("") when it yields
\* nothing or raises
\* the stringified-dictionary step without the nested {'url': ...} form
structured_image_url_flat_only(text) ==
    IF StartsWith(text, "{") /\ Contains(text, "image_url")
    THEN Bind(literal_eval(text), LAMBDA parsed :
         Bind(IF parsed # <<>> /\ parsed[1].t = "dict"
              THEN PyGet(parsed[1], "image_url") ELSE <<>>, LAMBDA img_val :
             IF img_val = <<>> \/ img_val[1].t = "dict" THEN PyStr("")
             ELSE img_val[1]))
    ELSE PyStr("")

structured_image_url(text) ==
    IF StartsWith(text, "{") /\ Contains(text, "image_url")
    THEN Bind(literal_eval(text), LAMBDA parsed :
         Bind(IF parsed # <<>> /\ parsed[1].t = "dict"
              THEN PyGet(parsed[1], "image_url") ELSE <<>>, LAMBDA img_val :
             IF img_val = <<>> THEN PyStr("")
             ELSE IF img_val[1].t = "dict"
                  THEN Bind(PyGet(img_val[1], "url"), LAMBDA u :
                           IF u = <<>> THEN PyStr("") ELSE u[1])
                  ELSE img_val[1]))
    ELSE PyStr("")

\* lines 119-146: the image reference extracted from the text, PyStr("")
\* when there is none
\* the extraction with the two searches in the other order
creative_extract_image_url_data_first(text) ==
    Bind(structured_image_url(text), LAMBDA structured :
    Bind(re_search_url(text), LAMBDA url_match :
    Bind(re_search_data(text, Quotes), LAMBDA data_match :
        IF Truthy(structured) THEN structured
        ELSE IF data_match # <<>> THEN PyStr(data_match[1])
        ELSE IF url_match # <<>> THEN PyStr(url_match[1])
        ELSE PyStr(""))))

creative_extract_image_url(text) ==
    Bind(structured_image_url(text), LAMBDA structured :
    Bind(re_search_url(text), LAMBDA url_match :
    Bind(re_search_data(text, Quotes), LAMBDA data_match :
        IF Truthy(structured) THEN structured
        ELSE IF url_match # <<>> THEN PyStr(url_match[1])
        ELSE IF data_match # <<>> THEN PyStr(data_match[1])
        ELSE PyStr(""))))

\* generate_image without the placeholder substitution of lines 149-155
creative_generate_image_no_placeholder(st, llm) ==
    IF llm.o \in {"ctor_fault", "invoke_fault"}
    THEN Ret([image_url |-> PyStr(CreativeErrorImage), status |-> "failed"])
    ELSE Ret([image_url |->
                 creative_extract_image_url(creative_content_text(llm.content)),
              status |-> "completed"])

creative_generate_image(st, llm) ==
    IF llm.o \in {"ctor_fault", "invoke_fault"}
    THEN Ret([image_url |-> PyStr(CreativeErrorImage), status |-> "failed"])
    ELSE Bind(creative_extract_image_url(creative_content_text(llm.content)),
              LAMBDA image_url :
                  Ret([image_url |-> IF Truthy(image_url) THEN image_url
                                     ELSE PyStr(CreativePlaceholder),
                       status |-> "completed"]))

(***************************************************************************)
(* JSON values (layouts, templates, brand documents): an object is a       *)
(* function on its keys, an array a sequence, a string a string, a number  *)
(* a number.  A value of another Python type than the code expects at its  *)
(* place is boxed, so that "is it a dict" is a test on the value.          *)
(***************************************************************************)
Boxed(py_type, value) == [py_type |-> py_type, value |-> value]

\* an array at a place where the code may meet another type
JsonList(items) == [py_type |-> "list", items |-> items]

IsDict(v) == "py_type" \notin DOMAIN v

IsList(v) == ~IsDict(v) /\ v.py_type = "list"

JsonNull == Boxed("NoneType", "null")

\* "'<type>' object has no attribute '<name>'" (AttributeError)
NoAttribute(v, name) ==
    "'" \o v.py_type \o "' object has no attribute '" \o name \o "'"

\* "'<type>' object is not iterable" (TypeError)
NotIterable(v) == "'" \o v.py_type \o "' object is not iterable"

\* bool(v) of a JSON value
TruthyJson(v) == IF IsDict(v) THEN DOMAIN v # {}
                 ELSE IF IsList(v) THEN v.items # <<>>
                 ELSE v.value # "" /\ v.value # "null"

(***************************************************************************)
(* Product-poster pipeline (product_agent.py).                             *)
(***************************************************************************)
FormatOrder == <<"instagram", "story", "facebook">>

FORMATS ==
    [instagram |-> [width |-> 1080, height |-> 1080, name |-> "Instagram Post"],
     story     |-> [width |-> 1080, height |-> 1920, name |-> "Instagram Story"],
     facebook  |-> [width |-> 1200, height |-> 630, name |-> "Facebook Post"]]

product_fetch_brand_data(st, direct, query) ==
    IF direct.o = "found" THEN Ret([brand_data |-> direct.doc])
    ELSE IF direct.o = "missing"
         THEN Ret([brand_data |-> get_brandkit(st.brandkit_id, query)])
         ELSE Ret([brand_data |-> get_brandkit(st.brandkit_id, query),
                   error |-> <<direct.fault>>])

\* A text response is its markdown fence ("none", "json" for an opening
\* fence tagged json, "plain" for an untagged one) and its body, which is a
\* JSON document or not.
\* lines 192-195: the fence is removed from a text that starts with one; the
\* pattern of line 194 matches only a fence followed by "jso" and an optional
\* "n", so the opening of a "plain" fence stays
strip_code_fence(text) ==
    IF text.fence = "json" THEN [text EXCEPT !.fence = "none"] ELSE text

\* json.loads: the document's value, or a JSONDecodeError
json_loads(text) ==
    IF text.fence # "none"
    THEN [ok |-> FALSE, err |-> "Expecting value: line 1 column 1 (char 0)"]
    ELSE IF ~text.body.ok THEN [ok |-> FALSE, err |-> text.body.err]
    ELSE [ok |-> TRUE, value |-> text.body.value]

\* design_poster_layouts that reports a layout document lacking a format as a
\* failure while still storing the document
product_design_poster_layouts_keeps_layout(st, llm) ==
    IF llm.o \in {"ctor_fault", "invoke_fault"}
    THEN Ret([poster_layouts |-> <<>>, status |-> "failed", error |-> <<llm.fault>>])
    ELSE IF llm.content.t # "text"
    THEN Ret([poster_layouts |-> <<>>, status |-> "failed",
              error |-> <<"'list' object has no attribute 'strip'">>])
    ELSE Bind(json_loads(strip_code_fence(llm.content)), LAMBDA parsed :
         IF ~parsed.ok
         THEN Ret([poster_layouts |-> <<>>, status |-> "failed",
                   error |-> <<"Failed to parse AI response: " \o parsed.err>>])
         ELSE IF ~IsDict(parsed.value)
         THEN Ret([poster_layouts |-> <<>>, status |-> "failed",
                   error |-> <<NoAttribute(parsed.value, "keys")>>])
         ELSE IF \E k \in 1..Len(FormatOrder) : FormatOrder[k] \notin DOMAIN parsed.value
         THEN Ret([poster_layouts |->
                      [images_to_generate |-> JsonList(<<>>)] @@ parsed.value,
                   status |-> "failed", error |-> <<"Layout lacks a format">>])
         ELSE Ret([poster_layouts |->
                      [images_to_generate |-> JsonList(<<>>)] @@ parsed.value]))

product_design_poster_layouts(st, llm) ==
    IF llm.o \in {"ctor_fault", "invoke_fault"}
    THEN Ret([poster_layouts |-> <<>>, status |-> "failed", error |-> <<llm.fault>>])
    ELSE IF llm.content.t # "text"
    THEN Ret([poster_layouts |-> <<>>, status |-> "failed",
              error |-> <<"'list' object has no attribute 'strip'">>])
    ELSE Bind(json_loads(strip_code_fence(llm.content)), LAMBDA parsed :
         IF ~parsed.ok
         THEN Ret([poster_layouts |-> <<>>, status |-> "failed",
                   error |-> <<"Failed to parse AI response: " \o parsed.err>>])
         ELSE IF ~IsDict(parsed.value)
         THEN Ret([poster_layouts |-> <<>>, status |-> "failed",
                   error |-> <<NoAttribute(parsed.value, "keys")>>])
         ELSE IF "images_to_generate" \notin DOMAIN parsed.value
         THEN Ret([poster_layouts |->
                      [images_to_generate |-> JsonList(<<>>)] @@ parsed.value])
         ELSE Ret([poster_layouts |-> parsed.value]))

\* lines 269-306: the image reference extracted from one response
product_extract_image_url(text) ==
    Bind(structured_image_url(text), LAMBDA structured :
    Bind(re_search_url(text), LAMBDA url_match :
    Bind(re_search_data(text, Quotes \cup WS), LAMBDA data_match :
        IF Truthy(structured) THEN structured
        ELSE IF url_match # <<>> THEN PyStr(url_match[1])
        ELSE IF data_match # <<>> THEN PyStr(data_match[1])
        ELSE PyStr(""))))

\* the prompt sent for one image (lines 259-265)
enhanced_prompt(brand_data, prompt) ==
    "Create a professional retail marketing image for "
    \o Get(brand_data, "name", "Brand") \o ". " \o prompt

\* lines 249-316: the loop over images_to_generate from entry k on; acc holds
\* the registry built so far and the model invocations made so far.  An entry
\* that is no dict raises inside the outer try, which ends the loop.
RECURSIVE images_loop(_, _, _, _, _)
images_loop(specs, brand_data, outs, k, acc) ==
    IF k > Len(specs) THEN acc
    ELSE IF ~IsDict(specs[k]) THEN acc
    ELSE Bind(acc, LAMBDA a :
         Bind(Get(specs[k], "role", "unknown"), LAMBDA role :
         Bind(Get(specs[k], "prompt", ""), LAMBDA prompt :
             IF prompt = "" THEN images_loop(specs, brand_data, outs, k + 1, a)
             ELSE
         Bind([a EXCEPT !.calls = Append(@,
                  [node |-> "generate_required_images",
                   prompt |-> enhanced_prompt(brand_data, prompt),
                   out |-> outs[k]])], LAMBDA called :
             IF outs[k].o = "invoke_fault"
             THEN images_loop(specs, brand_data, outs, k + 1, called)
             ELSE
         Bind(product_extract_image_url(creative_content_text(outs[k].content)),
              LAMBDA image_url :
             images_loop(specs, brand_data, outs, k + 1,
                 IF Truthy(image_url)
                 THEN [called EXCEPT !.images = (role :> image_url) @@ @]
                 ELSE called))))))

\* the loop ended by the first invocation that faults
RECURSIVE images_loop_stop_on_fault(_, _, _, _, _)
images_loop_stop_on_fault(specs, brand_data, outs, k, acc) ==
    IF k > Len(specs) THEN acc
    ELSE IF ~IsDict(specs[k]) THEN acc
    ELSE Bind(acc, LAMBDA a :
         Bind(Get(specs[k], "role", "unknown"), LAMBDA role :
         Bind(Get(specs[k], "prompt", ""), LAMBDA prompt :
             IF prompt = "" THEN images_loop_stop_on_fault(specs, brand_data, outs, k + 1, a)
             ELSE
         Bind([a EXCEPT !.calls = Append(@,
                  [node |-> "generate_required_images",
                   prompt |-> enhanced_prompt(brand_data, prompt),
                   out |-> outs[k]])], LAMBDA called :
             IF outs[k].o = "invoke_fault" THEN called
             ELSE
         Bind(product_extract_image_url(creative_content_text(outs[k].content)),
              LAMBDA image_url :
             images_loop_stop_on_fault(specs, brand_data, outs, k + 1,
                 IF Truthy(image_url)
                 THEN [called EXCEPT !.images = (role :> image_url) @@ @]
                 ELSE called))))))

\* generate_required_images whose loop ends at the first faulting invocation
product_images_stop_on_fault(st, ctor, outs) ==
    Bind(Get(st.poster_layouts, "images_to_generate", JsonList(<<>>)), LAMBDA specs :
        IF ~TruthyJson(specs) \/ ~IsList(specs) \/ ctor.o = "ctor_fault"
        THEN [images |-> <<>>, calls |-> <<>>]
        ELSE images_loop_stop_on_fault(specs.items, Get(st, "brand_data", <<>>), outs, 1,
                         [images |-> <<>>, calls |-> <<>>]))

\* the loop in which the first reference registered for a role is kept
RECURSIVE images_loop_first_wins(_, _, _, _, _)
images_loop_first_wins(specs, brand_data, outs, k, acc) ==
    IF k > Len(specs) THEN acc
    ELSE IF ~IsDict(specs[k]) THEN acc
    ELSE Bind(acc, LAMBDA a :
         Bind(Get(specs[k], "role", "unknown"), LAMBDA role :
         Bind(Get(specs[k], "prompt", ""), LAMBDA prompt :
             IF prompt = "" THEN images_loop_first_wins(specs, brand_data, outs, k + 1, a)
             ELSE
         Bind([a EXCEPT !.calls = Append(@,
                  [node |-> "generate_required_images",
                   prompt |-> enhanced_prompt(brand_data, prompt),
                   out |-> outs[k]])], LAMBDA called :
             IF outs[k].o = "invoke_fault"
             THEN images_loop_first_wins(specs, brand_data, outs, k + 1, called)
             ELSE
         Bind(product_extract_image_url(creative_content_text(outs[k].content)),
              LAMBDA image_url :
             images_loop_first_wins(specs, brand_data, outs, k + 1,
                 IF Truthy(image_url)
                 THEN [called EXCEPT !.images = @ @@ (role :> image_url)]
                 ELSE called))))))

\* generate_required_images that keeps the first reference of a role
product_images_first_wins(st, ctor, outs) ==
    Bind(Get(st.poster_layouts, "images_to_generate", JsonList(<<>>)), LAMBDA specs :
        IF ~TruthyJson(specs) \/ ~IsList(specs) \/ ctor.o = "ctor_fault"
        THEN [images |-> <<>>, calls |-> <<>>]
        ELSE images_loop_first_wins(specs.items, Get(st, "brand_data", <<>>), outs, 1,
                         [images |-> <<>>, calls |-> <<>>]))

\* generate_required_images that asks for a background when the layout
\* specification lists no image
product_images_default_background(st, ctor, outs) ==
    Bind(Get(st.poster_layouts, "images_to_generate", JsonList(<<>>)), LAMBDA specs :
        IF ctor.o = "ctor_fault" \/ (TruthyJson(specs) /\ ~IsList(specs))
        THEN [images |-> <<>>, calls |-> <<>>]
        ELSE images_loop(IF TruthyJson(specs) THEN specs.items
                         ELSE <<[role |-> "background", prompt |-> "a plain backdrop"]>>,
                         Get(st, "brand_data", <<>>), outs, 1,
                         [images |-> <<>>, calls |-> <<>>]))

\* the registry and the invocations of the whole stage; ctor is the outcome
\* of constructing the client, outs[k] that of the invocation for entry k
\* (an images_to_generate that is no list raises inside the try as well)
product_images(st, ctor, outs) ==
    Bind(Get(st.poster_layouts, "images_to_generate", JsonList(<<>>)), LAMBDA specs :
        IF ~TruthyJson(specs) \/ ~IsList(specs) \/ ctor.o = "ctor_fault"
        THEN [images |-> <<>>, calls |-> <<>>]
        ELSE images_loop(specs.items, Get(st, "brand_data", <<>>), outs, 1,
                         [images |-> <<>>, calls |-> <<>>]))

product_generate_required_images(st, ctor, outs) ==
    Ret([generated_images |-> product_images(st, ctor, outs).images])

\* bool(x) of a number / of an Optional[str]
NonZero(n) == n # 0

Given(opt) == opt # <<>> /\ opt[1] # ""

\* product_background that leaves an image background to the elements
product_background_plain_image(layout, width, height, generated_images) ==
    Bind(Get(layout, "background", "solid"), LAMBDA bg_type :
    Bind(Get(layout, "gradient_colors", <<"#ffffff", "#f0f0f0">>), LAMBDA gradient_colors :
        IF bg_type = "solid"
        THEN [background |-> Get(layout, "background_color", "#ffffff"),
              objects |-> <<>>]
        ELSE IF bg_type = "gradient"
        THEN [background |-> IF gradient_colors # <<>> THEN gradient_colors[1]
                             ELSE "#ffffff",
              objects |-> <<[type |-> "rect", left |-> 0, top |-> 0,
                             width |-> width, height |-> height,
                             fill |-> IF gradient_colors # <<>>
                                      THEN gradient_colors[1] ELSE "#ffffff",
                             selectable |-> FALSE, evented |-> FALSE]>>]
        ELSE [background |-> "#ffffff", objects |-> <<>>]))

\* lines 346-383: the background value and the objects it contributes
product_background(layout, width, height, generated_images) ==
    Bind(Get(layout, "background", "solid"), LAMBDA bg_type :
    Bind(Get(layout, "gradient_colors", <<"#ffffff", "#f0f0f0">>), LAMBDA gradient_colors :
        IF bg_type = "solid"
        THEN [background |-> Get(layout, "background_color", "#ffffff"),
              objects |-> <<>>]
        ELSE IF bg_type = "gradient"
        THEN [background |-> IF gradient_colors # <<>> THEN gradient_colors[1]
                             ELSE "#ffffff",
              objects |-> <<[type |-> "rect", left |-> 0, top |-> 0,
                             width |-> width, height |-> height,
                             fill |-> IF gradient_colors # <<>>
                                      THEN gradient_colors[1] ELSE "#ffffff",
                             selectable |-> FALSE, evented |-> FALSE]>>]
        ELSE IF bg_type = "image" /\ "background" \in DOMAIN generated_images
        THEN [background |-> "#ffffff",
              objects |-> <<[type |-> "image", left |-> 0, top |-> 0,
                             src |-> generated_images["background"],
                             scaleToWidth |-> width, scaleToHeight |-> height,
                             selectable |-> FALSE, evented |-> FALSE]>>]
        ELSE [background |-> "#ffffff", objects |-> <<>>]))

\* product_image_src that looks in the registry first
product_image_src_registry_first(role, generated_images, logo_url, product_image_data) ==
    IF role \in DOMAIN generated_images THEN <<generated_images[role]>>
    ELSE IF role = "logo" /\ logo_url # "" THEN <<PyStr(logo_url)>>
    ELSE IF role = "product" /\ Given(product_image_data)
    THEN <<PyStr(product_image_data[1])>>
    ELSE <<>>

\* lines 407-416: the source an image element is bound to, <<>> for None
product_image_src(role, generated_images, logo_url, product_image_data) ==
    IF role = "logo" /\ logo_url # "" THEN <<PyStr(logo_url)>>
    ELSE IF role = "product" /\ Given(product_image_data)
    THEN <<PyStr(product_image_data[1])>>
    ELSE IF role \in DOMAIN generated_images THEN <<generated_images[role]>>
    ELSE IF role = "background" /\ "background" \in DOMAIN generated_images
    THEN <<generated_images["background"]>>
    ELSE <<>>

\* the optional keys of an object: those of keys the element holds with a
\* truthy number
OptionalKeys(element, keys) ==
    [k \in {x \in keys : NonZero(Get(element, x, 0))} |-> element[k]]

\* product_element_objects that emits an image element bound to no source
product_element_objects_emits_unbound(element, generated_images, logo_url, product_image_data) ==
    Bind(Get(element, "type", ""), LAMBDA elem_type :
        IF elem_type = "text"
        THEN <<OptionalKeys(element, {"width"}) @@
               [type |-> "textbox",
                left |-> Get(element, "left", 50),
                top |-> Get(element, "top", 50),
                text |-> Get(element, "content", ""),
                fontSize |-> Get(element, "fontSize", 32),
                fontWeight |-> Get(element, "fontWeight", "normal"),
                fontFamily |-> Get(element, "fontFamily", "Arial"),
                fill |-> Get(element, "fill", "#000000"),
                textAlign |-> Get(element, "textAlign", "left")]>>
        ELSE IF elem_type = "image"
        THEN Bind(product_image_src(Get(element, "role", ""), generated_images,
                                    logo_url, product_image_data), LAMBDA src :
                 <<OptionalKeys(element, {"scaleToWidth", "scaleToHeight"}) @@
                   [type |-> "image",
                    left |-> Get(element, "left", 0),
                    top |-> Get(element, "top", 0),
                    src |-> IF src # <<>> THEN src[1] ELSE PyStr("")]>>)
        ELSE IF elem_type = "rect"
        THEN <<(IF "opacity" \in DOMAIN element
                THEN [opacity |-> element.opacity] ELSE <<>>) @@
               (IF NonZero(Get(element, "rx", 0))
                THEN [rx |-> element.rx, ry |-> Get(element, "ry", element.rx)]
                ELSE <<>>) @@
               [type |-> "rect",
                left |-> Get(element, "left", 0),
                top |-> Get(element, "top", 0),
                width |-> Get(element, "width", 100),
                height |-> Get(element, "height", 100),
                fill |-> Get(element, "fill", "#000000")]>>
        ELSE <<>>)

\* lines 387-445: the objects one element contributes (none or one)
product_element_objects(element, generated_images, logo_url, product_image_data) ==
    Bind(Get(element, "type", ""), LAMBDA elem_type :
        IF elem_type = "text"
        THEN <<OptionalKeys(element, {"width"}) @@
               [type |-> "textbox",
                left |-> Get(element, "left", 50),
                top |-> Get(element, "top", 50),
                text |-> Get(element, "content", ""),
                fontSize |-> Get(element, "fontSize", 32),
                fontWeight |-> Get(element, "fontWeight", "normal"),
                fontFamily |-> Get(element, "fontFamily", "Arial"),
                fill |-> Get(element, "fill", "#000000"),
                textAlign |-> Get(element, "textAlign", "left")]>>
        ELSE IF elem_type = "image"
        THEN Bind(product_image_src(Get(element, "role", ""), generated_images,
                                    logo_url, product_image_data), LAMBDA src :
                 IF src # <<>> /\ Truthy(src[1])
                 THEN <<OptionalKeys(element, {"scaleToWidth", "scaleToHeight"}) @@
                        [type |-> "image",
                         left |-> Get(element, "left", 0),
                         top |-> Get(element, "top", 0),
                         src |-> src[1]]>>
                 ELSE <<>>)
        ELSE IF elem_type = "rect"
        THEN <<(IF "opacity" \in DOMAIN element
                THEN [opacity |-> element.opacity] ELSE <<>>) @@
               (IF NonZero(Get(element, "rx", 0))
                THEN [rx |-> element.rx, ry |-> Get(element, "ry", element.rx)]
                ELSE <<>>) @@
               [type |-> "rect",
                left |-> Get(element, "left", 0),
                top |-> Get(element, "top", 0),
                width |-> Get(element, "width", 100),
                height |-> Get(element, "height", 100),
                fill |-> Get(element, "fill", "#000000")]>>
        ELSE <<>>)

\* lines 386-445: the loop over the elements from entry k on; an element
\* that is no dict raises (element.get)
RECURSIVE product_elements_loop(_, _, _, _, _, _)
product_elements_loop(elements, k, objects, generated_images, logo_url, product_image_data) ==
    IF k > Len(elements) THEN [raise |-> <<>>, objects |-> objects]
    ELSE IF ~IsDict(elements[k])
    THEN [raise |-> <<NoAttribute(elements[k], "get")>>, objects |-> <<>>]
    ELSE product_elements_loop(elements, k + 1,
             objects \o product_element_objects(elements[k], generated_images,
                                                logo_url, product_image_data),
             generated_images, logo_url, product_image_data)

\* lines 342-452: the graph of one format whose layout is truthy; a layout
\* that is no dict raises (layout.get), an elements that is no list too
product_build_format(format_key, layout, generated_images, logo_url, product_image_data) ==
    IF ~IsDict(layout) THEN [raise |-> <<NoAttribute(layout, "get")>>]
    ELSE Bind(Get(layout, "elements", JsonList(<<>>)), LAMBDA elements :
         IF ~IsList(elements) THEN [raise |-> <<NotIterable(elements)>>]
         ELSE
         Bind(product_background(layout, FORMATS[format_key].width,
                                 FORMATS[format_key].height, generated_images),
              LAMBDA bg :
         Bind(product_elements_loop(elements.items, 1, bg.objects, generated_images,
                                    logo_url, product_image_data), LAMBDA built :
             IF built.raise # <<>> THEN [raise |-> built.raise]
             ELSE [raise |-> <<>>,
                   graph |-> [objects |-> built.objects,
                              background |-> bg.background,
                              width |-> FORMATS[format_key].width,
                              height |-> FORMATS[format_key].height]])))

\* lines 337-452: the loop over FORMATS from entry k on
RECURSIVE product_formats_loop(_, _, _, _, _, _)
product_formats_loop(poster_layouts, k, canvas_formats, generated_images, logo_url, product_image_data) ==
    IF k > Len(FormatOrder) THEN Ret([canvas_formats |-> canvas_formats,
                                      status |-> "completed"])
    ELSE Bind(Get(poster_layouts, FormatOrder[k], <<>>), LAMBDA layout :
         IF ~TruthyJson(layout)
         THEN product_formats_loop(poster_layouts, k + 1, canvas_formats,
                                   generated_images, logo_url, product_image_data)
         ELSE
         Bind(product_build_format(FormatOrder[k], layout, generated_images,
                                   logo_url, product_image_data), LAMBDA built :
             IF built.raise # <<>> THEN Raise(built.raise[1])
             ELSE product_formats_loop(poster_layouts, k + 1,
                      canvas_formats @@ (FormatOrder[k] :> built.graph),
                      generated_images, logo_url, product_image_data)))

\* build_canvas_objects that gives every format a graph, an empty one where
\* the layout has no entry
product_build_canvas_objects_all_formats(st) ==
    Bind(product_formats_loop(
             Get(st, "poster_layouts", <<>>), 1, <<>>,
             Get(st, "generated_images", <<>>),
             Get(st.brand_data, "logoUrl", Get(st.brand_data, "logo_url", "")),
             st.product_image_data), LAMBDA built :
        IF built.raise # <<>> THEN built
        ELSE Ret([canvas_formats |->
                     [k \in DOMAIN FORMATS |->
                         IF k \in DOMAIN built.update.canvas_formats
                         THEN built.update.canvas_formats[k]
                         ELSE [objects |-> <<>>, background |-> "#ffffff",
                               width |-> FORMATS[k].width,
                               height |-> FORMATS[k].height]],
                  status |-> "completed"]))

\* lines 324-456
product_build_canvas_objects(st) ==
    product_formats_loop(
        Get(st, "poster_layouts", <<>>), 1, <<>>,
        Get(st, "generated_images", <<>>),
        Get(st.brand_data, "logoUrl", Get(st.brand_data, "logo_url", "")),
        st.product_image_data)

\* the model invocation a stage makes: none when the client constructor raised
Call(node, prompt, llm) ==
    IF llm.o = "ctor_fault" THEN <<>>
    ELSE <<[node |-> node, prompt |-> prompt, out |-> llm]>>

(***************************************************************************)
(* Template-based pipeline (template_agent.py).  A template definition is  *)
(* the dict read from the template file; its formats dict is kept as the *)
(* sequence of its <<key, value>> items, in file order.                    *)
(***************************************************************************)
\* dict.get(key, default) on a dict kept as a sequence of items
ItemsGet(items, key, default) ==
    LET hits == {k \in 1..Len(items) : items[k][1] = key}
    IN  IF hits = {} THEN default
        ELSE items[CHOOSE m \in hits : \A k \in hits : k <= m][2]

\* str.replace(old, new) from position i on
RECURSIVE ReplaceFrom(_, _, _, _)
ReplaceFrom(s, i, old, new) ==
    IF i > Len(s) THEN ""
    ELSE IF StartsWithAt(s, i, old) THEN new \o ReplaceFrom(s, i + Len(old), old, new)
    ELSE Char(s, i) \o ReplaceFrom(s, i + 1, old, new)

ReplaceAll(s, old, new) == ReplaceFrom(s, 1, old, new)

template_fetch_brand_data(st, direct, query) ==
    IF direct.o = "found" THEN Ret([brand_data |-> direct.doc])
    ELSE IF direct.o = "missing"
         THEN Ret([brand_data |-> get_brandkit(st.brandkit_id, query)])
         ELSE Ret([brand_data |-> get_brandkit(st.brandkit_id, query),
                   error |-> <<direct.fault>>])

\* the template file: absent, unreadable (open or json.load raised), or read
FileMissing == [o |-> "missing"]

FileFault(f) == [o |-> "fault", fault |-> f]

FileRead(v) == [o |-> "read", value |-> v]

load_template(st, file) ==
    IF file.o = "missing"
    THEN Ret([template_def |-> <<>>, status |-> "failed",
              error |-> <<"Template not found: " \o st.template_id>>])
    ELSE IF file.o = "fault"
    THEN Ret([template_def |-> <<>>, status |-> "failed", error |-> <<file.fault>>])
    ELSE IF ~IsDict(file.value)
    THEN Ret([template_def |-> <<>>, status |-> "failed",
              error |-> <<NoAttribute(file.value, "get")>>])
    ELSE Ret([template_def |-> file.value])

\* lines 111-115: the elements of one format from entry k on; prompts is the
\* ordered role -> prompt dict as a sequence of <<role, prompt>>
RECURSIVE collect_element_prompts(_, _, _)
collect_element_prompts(elements, k, prompts) ==
    IF k > Len(elements) THEN [raise |-> <<>>, prompts |-> prompts]
    ELSE IF ~IsDict(elements[k])
    THEN [raise |-> <<NoAttribute(elements[k], "get")>>, prompts |-> <<>>]
    ELSE Bind(prompts, LAMBDA p :
         Bind(Get(elements[k], "role", ""), LAMBDA role :
             IF /\ Get(elements[k], "type", "") = "text"
                /\ "prompt" \in DOMAIN elements[k]
                /\ role # ""
                /\ \A j \in 1..Len(p) : p[j][1] # role
             THEN collect_element_prompts(elements, k + 1,
                      Append(p, <<role, elements[k].prompt>>))
             ELSE collect_element_prompts(elements, k + 1, p)))

\* lines 110-115: the formats from item k on
RECURSIVE collect_text_prompts(_, _, _)
collect_text_prompts(formats, k, prompts) ==
    IF k > Len(formats) THEN [raise |-> <<>>, prompts |-> prompts]
    ELSE IF ~IsDict(formats[k][2])
    THEN [raise |-> <<NoAttribute(formats[k][2], "get")>>, prompts |-> <<>>]
    ELSE Bind(Get(formats[k][2], "elements", JsonList(<<>>)), LAMBDA elements :
         IF ~IsList(elements)
         THEN [raise |-> <<NotIterable(elements)>>, prompts |-> <<>>]
         ELSE Bind(collect_element_prompts(elements.items, 1, prompts), LAMBDA got :
                  IF got.raise # <<>> THEN got
                  ELSE collect_text_prompts(formats, k + 1, got.prompts)))

\* f"[{role}]" for every collected role (lines 169 and 177)
placeholder_texts(prompts) ==
    [r \in {prompts[k][1] : k \in 1..Len(prompts)} |-> "[" \o r \o "]"]

\* lines 134-137: the batch prompt
RECURSIVE prompt_list(_, _, _)
prompt_list(prompts, k, brand_name) ==
    IF k > Len(prompts) THEN ""
    ELSE "- " \o prompts[k][1] \o ": "
         \o ReplaceAll(prompts[k][2], "{{brand_name}}", brand_name)
         \o (IF k < Len(prompts) THEN "\n" ELSE "")
         \o prompt_list(prompts, k + 1, brand_name)

\* the text prompts of the state's template (lines 107-115)
template_text_prompts(st) ==
    collect_text_prompts(Get(Get(st, "template_def", <<>>), "formats", <<>>), 1, <<>>)

\* generate_texts that invokes the model once for every collected role
RECURSIVE calls_per_role(_, _, _, _)
calls_per_role(prompts, k, brand_name, llm) ==
    IF k > Len(prompts) THEN <<>>
    ELSE Call("generate_texts", prompt_list(<<prompts[k]>>, 1, brand_name), llm)
         \o calls_per_role(prompts, k + 1, brand_name, llm)

generate_texts_calls_per_role(st, llm) ==
    Bind(template_text_prompts(st), LAMBDA got :
        IF \/ DOMAIN Get(st, "template_def", <<>>) = {}
           \/ got.raise # <<>>
           \/ got.prompts = <<>>
        THEN <<>>
        ELSE calls_per_role(got.prompts, 1, Get(st.brand_data, "name", "Brand"), llm))

\* the model invocations generate_texts makes
generate_texts_calls(st, llm) ==
    Bind(template_text_prompts(st), LAMBDA got :
        IF \/ DOMAIN Get(st, "template_def", <<>>) = {}
           \/ got.raise # <<>>
           \/ got.prompts = <<>>
        THEN <<>>
        ELSE Call("generate_texts",
                  prompt_list(got.prompts, 1, Get(st.brand_data, "name", "Brand")),
                  llm))

generate_texts(st, llm) ==
    IF DOMAIN Get(st, "template_def", <<>>) = {}
    THEN Ret([generated_texts |-> <<>>,
              error |-> <<"No template definition available">>])
    ELSE Bind(template_text_prompts(st), LAMBDA got :
         IF got.raise # <<>> THEN Raise(got.raise[1])
         ELSE IF got.prompts = <<>> THEN Ret([generated_texts |-> <<>>])
         ELSE IF llm.o \in {"ctor_fault", "invoke_fault"}
         THEN Ret([generated_texts |-> placeholder_texts(got.prompts),
                   error |-> <<llm.fault>>])
         ELSE IF llm.content.t # "text"
         THEN Ret([generated_texts |-> placeholder_texts(got.prompts),
                   error |-> <<"'list' object has no attribute 'strip'">>])
         ELSE Bind(json_loads(strip_code_fence(llm.content)), LAMBDA parsed :
              IF ~parsed.ok
              THEN Ret([generated_texts |-> placeholder_texts(got.prompts)])
              ELSE Ret([generated_texts |-> parsed.value])))

\* lines 331-342: re.sub(r'\{\{([^}]+)\}\}', replacer, value) from position i
RECURSIVE replace_from(_, _, _)
replace_from(value, i, placeholders) ==
    IF i > Len(value) THEN ""
    ELSE Bind(RunEnd(value, i + 2, {"}"}), LAMBDA e :
         IF /\ StartsWithAt(value, i, "{{")
            /\ e >= i + 2
            /\ StartsWithAt(value, e + 1, "}}")
         THEN Get(placeholders, Slice(value, i + 2, e), Slice(value, i, e + 2))
              \o replace_from(value, e + 3, placeholders)
         ELSE Char(value, i) \o replace_from(value, i + 1, placeholders))

\* replace_placeholder with the substitution scanned a second time
replace_placeholder_rescan(value, placeholders) ==
    IF value.t # "str" THEN value
    ELSE PyStr(replace_from(replace_from(value.s, 1, placeholders), 1, placeholders))

\* lines 331-342: a value that is no str is returned as it is
replace_placeholder(value, placeholders) ==
    IF value.t # "str" THEN value
    ELSE PyStr(replace_from(value.s, 1, placeholders))

\* replace_placeholder on a template field that holds a str
resolve_str(s, placeholders) == replace_placeholder(PyStr(s), placeholders).s

\* lines 198-213: the placeholder dict; later assignments win
template_placeholders(brand_data, generated_texts) ==
    LET colors == Get(brand_data, "colors", <<>>)
        asset_urls == Get(brand_data, "assetUrls", Get(brand_data, "assets", <<>>))
    IN  [k \in {"generated_" \o r : r \in DOMAIN generated_texts} |->
            generated_texts[Slice(k, 11, Len(k))]]
        @@ [k \in {"asset_urls." \o ToString(n - 1) : n \in 1..Len(asset_urls)} |->
            asset_urls[CHOOSE n \in 1..Len(asset_urls) :
                           k = "asset_urls." \o ToString(n - 1)]]
        @@ ("colors.primary" :> (IF colors # <<>> THEN colors[1] ELSE "#00539F"))
        @@ ("colors.secondary" :> (IF Len(colors) > 1 THEN colors[2] ELSE "#D6001C"))
        @@ ("colors.text" :> "#FFFFFF")
        @@ ("logo_url" :> Get(brand_data, "logoUrl", Get(brand_data, "logo_url", "")))

\* lines 281-288: the text of a text element
fill_text_content(element, placeholders, generated_texts) ==
    Bind(Get(element, "content", ""), LAMBDA content :
        IF StartsWith(content, "{{generated_")
        THEN Bind(Slice(content, 3, Len(content) - 2), LAMBDA key :
                 Get(generated_texts, ReplaceAll(key, "generated_", ""),
                     Get(generated_texts, key,
                         "[" \o Get(element, "role", "") \o "]")))
        ELSE resolve_str(content, placeholders))

\* fill_element that emits an image element whatever its source
fill_element_any_source(element, placeholders, generated_texts) ==
    Bind(Get(element, "type", ""), LAMBDA element_type :
        IF element_type = "rect"
        THEN Bind(resolve_str(Get(element, "fill", "#000000"), placeholders),
                  LAMBDA fill_color :
                 <<(IF Get(element, "stroke", "") # ""
                    THEN [stroke |-> resolve_str(element.stroke, placeholders),
                          strokeWidth |-> Get(element, "strokeWidth", 1)]
                    ELSE <<>>) @@
                   [type |-> "rect",
                    left |-> Get(element, "left", 0),
                    top |-> Get(element, "top", 0),
                    width |-> Get(element, "width", 100),
                    height |-> Get(element, "height", 100),
                    fill |-> IF fill_color # "transparent" THEN fill_color
                             ELSE "rgba(0,0,0,0)"]>>)
        ELSE IF element_type = "text"
        THEN <<(IF Get(element, "originX", "") = "center"
                THEN [originX |-> "center"] ELSE <<>>) @@
               (IF Get(element, "textAlign", "") # ""
                THEN [textAlign |-> element.textAlign] ELSE <<>>) @@
               [type |-> "textbox",
                left |-> Get(element, "left", 0),
                top |-> Get(element, "top", 0),
                text |-> fill_text_content(element, placeholders, generated_texts),
                fontSize |-> Get(element, "fontSize", 24),
                fontWeight |-> Get(element, "fontWeight", "normal"),
                fontFamily |-> Get(element, "fontFamily", "Arial"),
                fill |-> resolve_str(Get(element, "fill", "#000000"),
                                             placeholders)]>>
        ELSE IF element_type = "image"
        THEN Bind(resolve_str(Get(element, "source", ""), placeholders),
                  LAMBDA source :
                 <<[type |-> "image",
                    left |-> Get(element, "left", 0),
                    top |-> Get(element, "top", 0),
                    src |-> source,
                    scaleToWidth |-> Get(element, "scaleToWidth", 200)]>>)
        ELSE <<>>)

\* lines 254-328: the object of one element, <<>> for None
fill_element(element, placeholders, generated_texts) ==
    Bind(Get(element, "type", ""), LAMBDA element_type :
        IF element_type = "rect"
        THEN Bind(resolve_str(Get(element, "fill", "#000000"), placeholders),
                  LAMBDA fill_color :
                 <<(IF Get(element, "stroke", "") # ""
                    THEN [stroke |-> resolve_str(element.stroke, placeholders),
                          strokeWidth |-> Get(element, "strokeWidth", 1)]
                    ELSE <<>>) @@
                   [type |-> "rect",
                    left |-> Get(element, "left", 0),
                    top |-> Get(element, "top", 0),
                    width |-> Get(element, "width", 100),
                    height |-> Get(element, "height", 100),
                    fill |-> IF fill_color # "transparent" THEN fill_color
                             ELSE "rgba(0,0,0,0)"]>>)
        ELSE IF element_type = "text"
        THEN <<(IF Get(element, "originX", "") = "center"
                THEN [originX |-> "center"] ELSE <<>>) @@
               (IF Get(element, "textAlign", "") # ""
                THEN [textAlign |-> element.textAlign] ELSE <<>>) @@
               [type |-> "textbox",
                left |-> Get(element, "left", 0),
                top |-> Get(element, "top", 0),
                text |-> fill_text_content(element, placeholders, generated_texts),
                fontSize |-> Get(element, "fontSize", 24),
                fontWeight |-> Get(element, "fontWeight", "normal"),
                fontFamily |-> Get(element, "fontFamily", "Arial"),
                fill |-> resolve_str(Get(element, "fill", "#000000"),
                                             placeholders)]>>
        ELSE IF element_type = "image"
        THEN Bind(resolve_str(Get(element, "source", ""), placeholders),
                  LAMBDA source :
                 IF source = "" THEN <<>>
                 ELSE <<[type |-> "image",
                         left |-> Get(element, "left", 0),
                         top |-> Get(element, "top", 0),
                         src |-> source,
                         scaleToWidth |-> Get(element, "scaleToWidth", 200)]>>)
        ELSE <<>>)

\* lines 230-233: the loop over the elements of one format from entry k on
RECURSIVE fill_elements_loop(_, _, _, _, _)
fill_elements_loop(elements, k, canvas_objects, placeholders, generated_texts) ==
    IF k > Len(elements) THEN [raise |-> <<>>, objects |-> canvas_objects]
    ELSE IF ~IsDict(elements[k])
    THEN [raise |-> <<NoAttribute(elements[k], "get")>>, objects |-> <<>>]
    ELSE fill_elements_loop(elements, k + 1,
             canvas_objects \o fill_element(elements[k], placeholders, generated_texts),
             placeholders, generated_texts)

\* line 217-221, in iteration order
format_mapping ==
    <<<<"facebook", "facebook">>, <<"instagram_post", "instagram">>,
      <<"instagram_story", "story">>>>

\* a number read with dict.get(key): <<>> for None
Optional(d, key) == IF key \in DOMAIN d THEN <<d[key]>> ELSE <<>>

\* lines 223-244: the loop over format_mapping from entry k on
RECURSIVE fill_formats_loop(_, _, _, _, _)
fill_formats_loop(formats, k, filled_templates, placeholders, generated_texts) ==
    IF k > Len(format_mapping)
    THEN Ret([filled_templates |-> filled_templates, status |-> "completed"])
    ELSE Bind(ItemsGet(formats, format_mapping[k][1], <<>>), LAMBDA format_def :
         IF ~TruthyJson(format_def)
         THEN fill_formats_loop(formats, k + 1, filled_templates, placeholders,
                                generated_texts)
         ELSE IF ~IsDict(format_def) THEN Raise(NoAttribute(format_def, "get"))
         ELSE Bind(Get(format_def, "elements", JsonList(<<>>)), LAMBDA elements :
         IF ~IsList(elements) THEN Raise(NotIterable(elements))
         ELSE Bind(fill_elements_loop(elements.items, 1, <<>>, placeholders,
                                      generated_texts), LAMBDA filled :
         IF filled.raise # <<>> THEN Raise(filled.raise[1])
         ELSE fill_formats_loop(formats, k + 1,
                  (format_mapping[k][2] :>
                      [objects |-> filled.objects,
                       background |-> resolve_str(
                           Get(format_def, "background", "#FFFFFF"), placeholders),
                       width |-> Optional(format_def, "width"),
                       height |-> Optional(format_def, "height")])
                  @@ filled_templates,
                  placeholders, generated_texts))))

fill_template(st) ==
    Bind(Get(st, "generated_texts", <<>>), LAMBDA generated_texts :
        IF DOMAIN Get(st, "template_def", <<>>) = {}
        THEN Ret([filled_templates |-> <<>>, status |-> "failed",
                  error |-> <<"No template definition">>])
        ELSE IF ~IsDict(generated_texts)
        THEN Raise(NoAttribute(generated_texts, "items"))
        ELSE fill_formats_loop(Get(st.template_def, "formats", <<>>), 1, <<>>,
                 template_placeholders(Get(st, "brand_data", <<>>), generated_texts),
                 generated_texts))

(***************************************************************************)
(* Inputs of the model: requests and collaborator outcomes.                *)
(***************************************************************************)
Prompts == {"apples", "summer sale"}

RefinedTexts == {"crisp red apples, brand palette"}

UrlA == "https://h/a.png"

DataA == "data:image/png;base64,QUJD"

\* texts around which the string responses are built
ContentCores ==
    {"", UrlA, "http://h/b", DataA, "data:image/png;base64,", "https://",
     "image_url", "no image, sorry", "data:image/;base64,QQ"}

ContentAffixes == {"", " ", "'", "\"", "{", "see "}

\* values of the image_url field of the structured responses
StructuredUrls == {"", UrlA, DataA, "cat"}

StructuredTexts ==
    UNION {{"{'image_url': {'url': '" \o x \o "'}}",
            "{'image_url': '" \o x \o "'}",
            "{\"image_url\": \"" \o x \o "\"}",
            "{'type': 'image_url', 'image_url': {'url': '" \o x \o "'}",
            "{'image_url': {'uri': '" \o x \o "'}}",
            "{'caption': 'https://h/other', 'image_url': '" \o x \o "'}",
            "{image_url: " \o x \o "}"} : x \in StructuredUrls}

ImagePart == PyDict(<< <<"type", PyStr("image_url")>>,
                       <<"image_url", PyDict(<< <<"url", PyStr(DataA)>> >>)>> >>)

TextPart == PyDict(<< <<"type", PyStr("text")>>, <<"text", PyStr("done")>> >>)

ListContents ==
    {PyList(<<>>), PyList(<<ImagePart>>), PyList(<<PyStr("Here: "), ImagePart>>),
     PyList(<<TextPart>>), PyList(<<PyStr(" "), PyStr("nothing ")>>),
     PyList(<<PyStr("https:"), PyStr("//h/c ")>>), PyList(<<TextPart, PyStr(UrlA)>>)}

ImageContents ==
    {PyStr(p \o c \o q) : p \in ContentAffixes, c \in ContentCores, q \in ContentAffixes}
    \cup {PyStr(x) : x \in StructuredTexts}
    \cup ListContents

LlmFaults == {CtorFault(f) : f \in Faults} \cup {InvokeFault(f) : f \in Faults}

\* layout elements the design model returns
ElHeadline ==
    [type |-> "text", role |-> "headline", content |-> "Big Sale", left |-> 60,
     top |-> 80, fontSize |-> 64, fontWeight |-> "bold", fill |-> "#111111",
     textAlign |-> "center", width |-> 900]

ElLogo == [type |-> "image", role |-> "logo", left |-> 40, top |-> 40,
           scaleToWidth |-> 200]

ElProduct == [type |-> "image", role |-> "product", left |-> 300, top |-> 300,
              scaleToWidth |-> 400, scaleToHeight |-> 400]

ElDecor == [type |-> "image", role |-> "decorative"]

ElRect == [type |-> "rect", left |-> 0, top |-> 900, width |-> 1080,
           height |-> 180, fill |-> "#222222", opacity |-> 0, rx |-> 12]

ElCircle == [type |-> "circle", left |-> 5]

LSolid == [background |-> "solid", background_color |-> "#ff0000",
           elements |-> JsonList(<<ElHeadline, ElLogo, ElProduct>>)]

LImage == [background |-> "image", elements |-> JsonList(<<ElDecor, ElRect, ElCircle>>)]

LGradient == [background |-> "gradient", gradient_colors |-> <<"#111111", "#222222">>,
              elements |-> JsonList(<<ElHeadline>>)]

LBadElement == [background |-> "solid",
                elements |-> JsonList(<<ElHeadline, Boxed("str", "logo")>>)]

LNullElements == [background |-> "image", elements |-> JsonNull]

LNotDict == Boxed("str", "centered headline over a photo")

\* images_to_generate entries
ImgBackground == [role |-> "background", prompt |-> "a sunny orchard", required |-> TRUE]

ImgDecor == [role |-> "decorative", prompt |-> "a ribbon"]

ImgNoPrompt == [role |-> "decorative"]

ImgBackgroundAgain == [role |-> "background", prompt |-> "a misty orchard"]

MaxImages == 2

ImageLists ==
    {<<ImgBackground>>, <<ImgBackground, ImgDecor>>, <<ImgNoPrompt, ImgBackground>>,
     <<Boxed("str", "background"), ImgDecor>>, <<ImgBackground, ImgBackgroundAgain>>}

\* the layout documents the design model returns
LayoutDocs ==
    {ig @@ st @@ fb @@ [images_to_generate |-> JsonList(<<ImgBackground, ImgDecor>>)] :
        ig \in {<<>>, [instagram |-> LSolid], [instagram |-> LImage]},
        st \in {[story |-> LImage], [story |-> LGradient], [story |-> LBadElement]},
        fb \in {[facebook |-> <<>>], [facebook |-> LImage], [facebook |-> LNotDict]}}
    \cup {[instagram |-> LImage, story |-> LSolid, facebook |-> LImage] @@ im :
        im \in {<<>>} \cup {[images_to_generate |-> JsonList(l)] : l \in ImageLists}}
    \cup {[instagram |-> LNullElements]}

JsonText(fence, value) == [t |-> "text", fence |-> fence, body |-> [ok |-> TRUE, value |-> value]]

NotJsonText(err) == [t |-> "text", fence |-> "none", body |-> [ok |-> FALSE, err |-> err]]

FencedDoc == [story |-> LImage, images_to_generate |-> JsonList(<<ImgBackground>>)]

DesignContents ==
    {JsonText("none", d) : d \in LayoutDocs}
    \cup {JsonText("json", FencedDoc), JsonText("plain", FencedDoc),
          JsonText("none", JsonList(<<>>)),
          NotJsonText("Expecting property name enclosed in double quotes: line 1 column 2 (char 1)"),
          PyList(<<TextPart>>)}

\* responses of the image model in the product-poster pipeline
ProductImageOutcomes ==
    {Content(PyStr(UrlA)), Content(PyStr(DataA \o " trailing")),
     Content(PyStr("no image, sorry")), InvokeFault("quota exceeded")}

ProductImages == {<<>>, <<"data:image/png;base64,UFJPRA==">>}

\* template elements
TElHeadline ==
    [type |-> "text", role |-> "headline", prompt |-> "Headline for {{brand_name}}",
     content |-> "{{generated_headline}}", left |-> 600, top |-> 200, fontSize |-> 72,
     fill |-> "{{colors.text}}", originX |-> "center", textAlign |-> "center"]

TElHeadlineAgain ==
    [type |-> "text", role |-> "headline", prompt |-> "A second headline",
     content |-> "{{generated_headline}}", fontWeight |-> "bold"]

TElTagline ==
    [type |-> "text", role |-> "tagline", prompt |-> "Tagline, five words",
     content |-> "{{generated_tagline}}", fontFamily |-> "Georgia"]

TElStatic ==
    [type |-> "text", role |-> "cta", content |-> "Shop {{brand_name}} in {{colors.primary}}"]

TElLogo == [type |-> "image", source |-> "{{logo_url}}", left |-> 40, top |-> 40,
            scaleToWidth |-> 160]

TElAsset == [type |-> "image", source |-> "{{asset_urls.0}}"]

TElRect == [type |-> "rect", fill |-> "{{colors.secondary}}", stroke |-> "{{colors.text}}",
            left |-> 0, top |-> 500, width |-> 1200, height |-> 130]

TElClear == [type |-> "rect", fill |-> "transparent", strokeWidth |-> 3]

TElLine == [type |-> "line", left |-> 5]

\* template formats
FFacebook ==
    [width |-> 1200, height |-> 630, background |-> "{{colors.primary}}",
     elements |-> JsonList(<<TElRect, TElHeadline, TElLogo, TElLine>>)]

FPost ==
    [width |-> 1080, height |-> 1080,
     elements |-> JsonList(<<TElHeadlineAgain, TElTagline, TElAsset, TElClear>>)]

FStory == [background |-> "#000000", elements |-> JsonList(<<TElStatic, TElTagline>>)]

FPlain == [width |-> 1200, height |-> 630, elements |-> JsonList(<<TElRect, TElLogo>>)]

\* the dicts the template files hold
Templates ==
    {[name |-> "Sale",
      formats |-> << <<"facebook", FFacebook>>, <<"instagram_post", FPost>>,
                     <<"instagram_story", FStory>> >>],
     [name |-> "Story first",
      formats |-> << <<"instagram_story", FStory>>, <<"square", FPost>> >>],
     [name |-> "Plain", formats |-> << <<"facebook", FPlain>> >>],
     [name |-> "No formats"],
     [name |-> "Bad format",
      formats |-> << <<"facebook", FPlain>>, <<"square", Boxed("str", "wide")>> >>],
     [name |-> "Bad element",
      formats |-> << <<"facebook", [elements |-> JsonList(<<TElHeadline, Boxed("str", "logo")>>)]>> >>],
     [name |-> "Null elements",
      formats |-> << <<"instagram_post", [elements |-> JsonNull]>> >>],
     <<>>}

TemplateIds == {"sale_banner", "does_not_exist"}

\* what the file system holds under a template id
TemplateFiles(template_id) ==
    IF template_id = "does_not_exist" THEN {FileMissing}
    ELSE {FileRead(t) : t \in Templates}
         \cup {FileRead(JsonList(<<>>)),
               FileFault("Expecting value: line 1 column 1 (char 0)")}

\* responses of the text model in the template pipeline
TextsContents ==
    {JsonText("none", [headline |-> "Fresh Deals", tagline |-> "Taste the season"]),
     JsonText("json", [headline |-> "Fresh {{colors.primary}}"]),
     JsonText("none", [generated_headline |-> "Keyed", extra |-> "More"]),
     JsonText("plain", [headline |-> "Fresh Deals"]),
     JsonText("none", JsonList(<<>>)),
     NotJsonText("Extra data: line 1 column 5 (char 4)"),
     PyList(<<TextPart>>)}

DirectLookups == {DocFound(d) : d \in BrandDocs} \cup {DocMissing, DocFault("deadline")}

GroupQueries == {DocFound(BrandBare), DocMissing, DocFault("deadline")}

(***************************************************************************)
(* The state graphs and the HTTP handlers.                                 *)
(***************************************************************************)
\* routes.py lines 68-77: the initial state of generate_creative
creative_initial_state(prompt) ==
    [brandkit_id |-> "bk1", user_id |-> "u1", prompt |-> prompt,
     aspect_ratio |-> "1:1", brand_data |-> <<>>, refined_prompt |-> "",
     image_url |-> PyStr(""), status |-> "processing"]

\* routes.py lines 170-185: the initial state of generate_product_poster
product_initial_state(product_image_data) ==
    [user_id |-> "u1", brandkit_id |-> "bk1", product_name |-> "Cider",
     product_description |-> <<>>, poster_type |-> "sale",
     poster_description |-> <<>>, product_image_data |-> product_image_data,
     tagline |-> <<>>, brand_data |-> <<>>, poster_layouts |-> <<>>,
     generated_images |-> <<>>, canvas_formats |-> <<>>,
     status |-> "processing", error |-> <<>>]

\* routes.py lines 126-136: the initial state of generate_from_template
template_initial_state(template_id) ==
    [user_id |-> "u1", brandkit_id |-> "bk1", template_id |-> template_id,
     brand_data |-> <<>>, template_def |-> <<>>, generated_texts |-> <<>>,
     filled_templates |-> <<>>, status |-> "processing", error |-> <<>>]

Init ==
    /\ \/ /\ kind = "creative"
          /\ state \in {creative_initial_state(p) : p \in Prompts}
       \/ /\ kind = "template"
          /\ state \in {template_initial_state(t) : t \in TemplateIds}
       \/ /\ kind = "product"
          /\ state \in {product_initial_state(i) : i \in ProductImages}
    /\ pc = "fetch_brand_data"
    /\ raised = <<>>
    /\ calls = <<>>
    /\ log = <<>>
    /\ response = <<>>

\* what the log records about a stage's run
Outcome(res) ==
    IF res.raise # <<>> THEN "raised"
    ELSE IF "status" \in DOMAIN res.update THEN res.update.status
    ELSE "ok"

\* one stage of a compiled StateGraph: the node runs on the current state,
\* its partial state overwrites the keys it names, and the edge leads on; a
\* fault the node raises leaves the graph through ainvoke
RunNode(k, node, res, next, made) ==
    /\ kind = k
    /\ pc = node
    /\ IF res.raise # <<>>
       THEN /\ pc' = "raised"
            /\ raised' = res.raise
            /\ state' = state
       ELSE /\ pc' = next
            /\ raised' = raised
            /\ state' = res.update @@ state
    /\ log' = Append(log, [node |-> node, outcome |-> Outcome(res)])
    /\ calls' = calls \o made
    /\ UNCHANGED <<kind, response>>

Node_creative_fetch_brand_data ==
    \E direct \in DirectLookups, query \in GroupQueries :
        RunNode("creative", "fetch_brand_data",
                creative_fetch_brand_data(state, direct, query),
                "refine_prompt", Lookups(state, direct, query))

Node_creative_refine_prompt ==
    \E llm \in LlmFaults \cup {Content(c) : c \in RefinedTexts} :
        RunNode("creative", "refine_prompt", creative_refine_prompt(state, llm),
                "generate_image", Call("refine_prompt", state.prompt, llm))

Node_creative_generate_image ==
    \E llm \in LlmFaults \cup {Content(c) : c \in ImageContents} :
        RunNode("creative", "generate_image", creative_generate_image(state, llm),
                "END", Call("generate_image", state.refined_prompt, llm))

Node_product_fetch_brand_data ==
    \E direct \in DirectLookups, query \in GroupQueries :
        RunNode("product", "fetch_brand_data",
                product_fetch_brand_data(state, direct, query),
                "design_poster_layouts", Lookups(state, direct, query))

Node_product_design_poster_layouts ==
    \E llm \in LlmFaults \cup {Content(c) : c \in DesignContents} :
        RunNode("product", "design_poster_layouts",
                product_design_poster_layouts(state, llm),
                "generate_required_images",
                Call("design_poster_layouts", "layout for " \o state.product_name, llm))

Node_product_generate_required_images ==
    \E ctor \in {Content(PyStr("")), CtorFault("quota exceeded")},
       outs \in [1..MaxImages -> ProductImageOutcomes] :
        RunNode("product", "generate_required_images",
                product_generate_required_images(state, ctor, outs),
                "build_canvas_objects", product_images(state, ctor, outs).calls)

Node_product_build_canvas_objects ==
    RunNode("product", "build_canvas_objects", product_build_canvas_objects(state),
            "END", <<>>)

Node_template_fetch_brand_data ==
    \E direct \in DirectLookups, query \in GroupQueries :
        RunNode("template", "fetch_brand_data",
                template_fetch_brand_data(state, direct, query),
                "load_template", Lookups(state, direct, query))

Node_template_load_template ==
    /\ kind = "template"
    /\ \E file \in TemplateFiles(state.template_id) :
           RunNode("template", "load_template", load_template(state, file),
                   "generate_texts", <<>>)

Node_template_generate_texts ==
    \E llm \in LlmFaults \cup {Content(c) : c \in TextsContents} :
        RunNode("template", "generate_texts", generate_texts(state, llm),
                "fill_template", generate_texts_calls(state, llm))

Node_template_fill_template ==
    RunNode("template", "fill_template", fill_template(state), "END", <<>>)

\* routes.py generate_from_template
generate_from_template ==
    /\ kind = "template"
    /\ pc \in {"END", "raised"}
    /\ response = <<>>
    /\ response' =
          IF pc = "raised" THEN <<[code |-> 500, detail |-> raised]>>
          ELSE IF state.status = "failed"
          THEN <<[code |-> 400, detail |-> state.error]>>
          ELSE <<[code |-> 200,
                  body |-> [status |-> state.status, formats |-> state.filled_templates,
                            message |-> "Template generated successfully"]]>>
    /\ UNCHANGED <<kind, state, pc, raised, calls, log>>

\* routes.py generate_product_poster
generate_product_poster ==
    /\ kind = "product"
    /\ pc \in {"END", "raised"}
    /\ response = <<>>
    /\ response' =
          IF pc = "raised" THEN <<[code |-> 500, detail |-> raised]>>
          ELSE IF state.status = "failed"
          THEN <<[code |-> 400, detail |-> state.error]>>
          ELSE <<[code |-> 200,
                  body |-> [status |-> state.status, formats |-> state.canvas_formats,
                            message |-> "Product poster generated successfully"]]>>
    /\ UNCHANGED <<kind, state, pc, raised, calls, log>>

\* routes.py generate_creative
generate_creative ==
    /\ kind = "creative"
    /\ pc \in {"END", "raised"}
    /\ response = <<>>
    /\ response' =
          IF pc = "raised" THEN <<[code |-> 500, detail |-> raised]>>
          ELSE IF state.image_url.t # "str"
          THEN <<[code |-> 500, detail |-> <<"image_url: Input should be a valid string">>]>>
          ELSE <<[code |-> 200,
                  body |-> [image_url |-> state.image_url.s, status |-> state.status,
                            description |-> "Creative generated successfully"]]>>
    /\ UNCHANGED <<kind, state, pc, raised, calls, log>>

Next ==
    \/ Node_creative_fetch_brand_data
    \/ Node_creative_refine_prompt
    \/ Node_creative_generate_image
    \/ generate_creative
    \/ Node_product_fetch_brand_data
    \/ Node_product_design_poster_layouts
    \/ Node_product_generate_required_images
    \/ Node_product_build_canvas_objects
    \/ generate_product_poster
    \/ Node_template_fetch_brand_data
    \/ Node_template_load_template
    \/ Node_template_generate_texts
    \/ Node_template_fill_template
    \/ generate_from_template

Spec == Init /\ [][Next]_vars

(***************************************************************************)
(* The functions of the pipelines applied to drawn inputs: the two image-  *)
(* reference extractions of generate_image and generate_required_images.   *)
(***************************************************************************)
\* the value of the image_url field in the structured responses
ShapeValues == StructuredUrls \cup {"not a url", "http://h/b"}

\* the text of a dict literal with an image_url field holding x, nested
\* under url or flat, alone or after a caption field that holds a URL
ShapedText(shape, x) ==
    CASE shape = "nested" -> "{'image_url': {'url': '" \o x \o "'}}"
      [] shape = "flat" -> "{'image_url': '" \o x \o "'}"
      [] shape = "caption_nested" ->
             "{'caption': 'https://h/other', 'image_url': {'url': '" \o x \o "'}}"
      [] shape = "caption_flat" ->
             "{'caption': 'https://h/other', 'image_url': '" \o x \o "'}"

Shapes == {"nested", "flat", "caption_nested", "caption_flat"}

\* responses of an image model
NormalizerInputs ==
    ImageContents
    \cup {PyStr(ShapedText(shape, x)) : shape \in Shapes, x \in ShapeValues}
    \cup {PyStr(DataA \o sep \o UrlA \o tail) :
             sep \in {" ", "'", "\n", " and "}, tail \in {"", " http://h/b", "'"}}
    \cup {PyStr(lead \o DataA \o sep \o "trailing") :
             lead \in {"", "see ", "{"}, sep \in {" ", "\t", "\n", "'", "\""}}
    \cup {PyList(<<PyStr(DataA), PyStr(" then "), PyStr(UrlA)>>),
          PyList(<<PyStr(DataA \o " "), TextPart>>),
          PyStr("{'image_url': " \o UrlA \o " " \o DataA \o "}")}

\* a template string as its pieces: literal text and {{key}} tokens
Lit(s) == [k |-> "lit", s |-> s]

Token(key) == [k |-> "token", s |-> key]

Pieces ==
    {Lit("Hi "), Lit(" }"), Lit("}} "), Lit("{ "), Lit("#fff")}
    \cup {Token(key) : key \in {"a", "b", "c", "d", "missing", "colors.primary"}}

MaxPieces == 3

PieceLists == UNION {[1..n -> Pieces] : n \in 0..MaxPieces}

\* the string the pieces spell
RECURSIVE Spell(_, _)
Spell(pieces, n) ==
    IF n > Len(pieces) THEN ""
    ELSE (IF pieces[n].k = "lit" THEN pieces[n].s ELSE "{{" \o pieces[n].s \o "}}")
         \o Spell(pieces, n + 1)

\* a placeholder map whose values hold token syntax themselves
PlaceholderMap ==
    ("a" :> "1") @@ ("b" :> "{{a}}") @@ ("c" :> "") @@ ("d" :> "{{a")
    @@ ("colors.primary" :> "#111111")

\* values that are no str
NonStrValues == {[t |-> "int", v |-> 12], [t |-> "NoneType", v |-> 0],
                 PyDict(<< <<"fill", PyStr("{{a}}")>> >>)}

PlaceholderInputs ==
    {[pieces |-> p, value |-> PyStr(Spell(p, 1)), result |-> <<>>] : p \in PieceLists}
    \cup {[pieces |-> <<>>, value |-> v, result |-> <<>>] : v \in NonStrValues}

\* text elements whose content holds a {{generated_<role>}} token
ElementContents ==
    {"{{generated_headline}}", "{{generated_tagline}}", "{{generated_headline}} now!",
     "Shop {{generated_headline}}", "Shop now", "{{colors.primary}}"}

ElementRoles == {"headline", "tagline", "cta"}

TextElements ==
    {[type |-> "text", content |-> c, role |-> r] :
        c \in ElementContents, r \in ElementRoles}
    \cup {[type |-> "text", content |-> c] : c \in ElementContents}
    \cup {TElHeadline, TElHeadlineAgain, TElTagline, TElStatic}

\* generated-text registries, <<>> for the empty dict
TextRegistries ==
    {<<>>, [headline |-> "Big Sale"], [tagline |-> "Fresh every day"],
     [headline |-> "Big Sale", tagline |-> "Fresh every day"],
     [headline |-> "{{generated_tagline}}", tagline |-> "Fresh every day"]}

ElementInputs ==
    {[element |-> e, generated_texts |-> g, result |-> <<>>] :
        e \in TextElements \cup {TElLogo, TElAsset, TElRect, TElClear, TElLine},
        g \in TextRegistries}

\* Generated Image Registries, <<>> for the empty dict
ImageRegistries ==
    {<<>>, [background |-> PyStr(UrlA)], [decorative |-> PyStr(DataA)],
     [product |-> PyStr(UrlA)],
     [background |-> PyStr(DataA), product |-> PyStr(UrlA)]}

\* rect elements: a corner radius on both axes, none, a radius of 0
ElRectOval == [type |-> "rect", left |-> 10, top |-> 20, rx |-> 12, ry |-> 4]

ElRectSquare == [type |-> "rect", fill |-> "#ffffff", opacity |-> 0]

ElRectZero == [type |-> "rect", rx |-> 0, opacity |-> 1]

RectDoc ==
    [instagram |-> [background |-> "solid",
                    elements |-> JsonList(<<ElRect, ElRectOval, ElRectSquare>>)],
     story |-> [background |-> "gradient",
                elements |-> JsonList(<<ElRectZero, ElRect>>)]]

BuilderInputs ==
    {[st |-> [product_initial_state(img) EXCEPT
                 !.brand_data = b, !.poster_layouts = l, !.generated_images = g],
      result |-> <<>>] :
        img \in ProductImages \cup {<<"">>},
        b \in BrandDocs \cup {MockBrand("bk1")},
        l \in LayoutDocs \cup {RectDoc},
        g \in ImageRegistries}

InitFunctions ==
    /\ \/ /\ kind = "normalizer"
          /\ state \in {[content |-> c, creative |-> <<>>, product |-> <<>>] :
                          c \in NormalizerInputs}
       \/ /\ kind = "placeholder"
          /\ state \in PlaceholderInputs
       \/ /\ kind = "element"
          /\ state \in ElementInputs
       \/ /\ kind = "builder"
          /\ state \in BuilderInputs
    /\ pc = "apply"
    /\ raised = <<>>
    /\ calls = <<>>
    /\ log = <<>>
    /\ response = <<>>

\* creative_agent.py lines 109-146 on the drawn response
Normalize_creative ==
    /\ kind = "normalizer"
    /\ state.creative = <<>>
    /\ state' = [state EXCEPT !.creative =
                    <<creative_extract_image_url(creative_content_text(state.content))>>]
    /\ UNCHANGED <<kind, pc, raised, calls, log, response>>

\* product_agent.py lines 272-306 on the drawn response
Normalize_product ==
    /\ kind = "normalizer"
    /\ state.product = <<>>
    /\ state' = [state EXCEPT !.product =
                    <<product_extract_image_url(creative_content_text(state.content))>>]
    /\ UNCHANGED <<kind, pc, raised, calls, log, response>>

\* template_agent.py replace_placeholder on the drawn value
Apply_replace_placeholder ==
    /\ kind = "placeholder"
    /\ state.result = <<>>
    /\ state' = [state EXCEPT !.result =
                    <<replace_placeholder(state.value, PlaceholderMap)>>]
    /\ UNCHANGED <<kind, pc, raised, calls, log, response>>

\* template_agent.py fill_element on the drawn element, as lines 198-231 call it
Apply_fill_element ==
    /\ kind = "element"
    /\ state.result = <<>>
    /\ state' = [state EXCEPT !.result =
                    <<fill_element(state.element,
                                   template_placeholders(BrandAcme, state.generated_texts),
                                   state.generated_texts)>>]
    /\ UNCHANGED <<kind, pc, raised, calls, log, response>>

\* product_agent.py build_canvas_objects on the drawn state
Apply_build_canvas_objects ==
    /\ kind = "builder"
    /\ state.result = <<>>
    /\ state' = [state EXCEPT !.result = <<product_build_canvas_objects(state.st)>>]
    /\ UNCHANGED <<kind, pc, raised, calls, log, response>>

NextFunctions ==
    \/ Normalize_creative
    \/ Normalize_product
    \/ Apply_replace_placeholder
    \/ Apply_fill_element
    \/ Apply_build_canvas_objects

SpecFunctions == InitFunctions /\ [][NextFunctions]_vars

(***************************************************************************)
(* Two requests in flight.  The route handlers are coroutines: each builds  *)
(* its initial state as a local dict and awaits ainvoke of the compiled     *)
(* graph, so the stages of two runs may execute in any interleaving.  A run *)
(* is its script (the request and the responses its collaborators give),    *)
(* its own state dict, and the number of the stage it executes next.        *)
(***************************************************************************)
\* the nodes of the compiled graphs in edge order (creative_agent.py 163-175,
\* product_agent.py 462-476, template_agent.py 346-359)
GraphNodes ==
    [creative |-> <<"fetch_brand_data", "refine_prompt", "generate_image">>,
     product |-> <<"fetch_brand_data", "design_poster_layouts",
                   "generate_required_images", "build_canvas_objects">>,
     template |-> <<"fetch_brand_data", "load_template", "generate_texts",
                    "fill_template">>]

\* the module-level values the stages read
ModuleValues == [FORMATS |-> FORMATS, graphs |-> GraphNodes]

Script(k, init, direct, query, responses) ==
    [kind |-> k, init |-> init, direct |-> direct, query |-> query,
     responses |-> responses]

OrchardDoc ==
    [instagram |-> LImage, story |-> LSolid, facebook |-> LImage,
     images_to_generate |-> JsonList(<<ImgBackground>>)]

ScriptImageStage ==
    [ctor |-> Content(PyStr("")),
     outs |-> [k \in 1..MaxImages |->
                  IF k = 1 THEN Content(PyStr(UrlA)) ELSE InvokeFault("quota exceeded")]]

Scripts ==
    {Script("product", product_initial_state(<<>>), DocFound(BrandAcme), DocMissing,
            <<Content(JsonText("none", OrchardDoc)), ScriptImageStage>>),
     Script("product", product_initial_state(<<"data:image/png;base64,UFJPRA==">>),
            DocMissing, DocMissing,
            <<Content(NotJsonText("Expecting value: line 1 column 1 (char 0)")),
              ScriptImageStage>>),
     Script("product", product_initial_state(<<>>), DocFound(BrandBare), DocMissing,
            <<Content(JsonText("none", [story |-> LBadElement])), ScriptImageStage>>),
     Script("template", template_initial_state("sale_banner"), DocFound(BrandAcme),
            DocMissing,
            <<FileRead([name |-> "Sale",
                        formats |-> << <<"facebook", FFacebook>>,
                                       <<"instagram_post", FPost>> >>]),
              Content(JsonText("none", [headline |-> "Fresh Deals",
                                        tagline |-> "Taste the season"]))>>),
     Script("template", template_initial_state("does_not_exist"), DocFault("deadline"),
            DocFound(BrandBare), <<FileMissing, InvokeFault("deadline")>>),
     Script("creative", creative_initial_state("apples"), DocFound(BrandBare),
            DocMissing,
            <<Content("crisp red apples, brand palette"), Content(PyStr(UrlA))>>)}

\* the n-th node of a run's graph applied to a state dict
run_stage(script, n, st) ==
    IF script.kind = "creative"
    THEN CASE n = 1 -> creative_fetch_brand_data(st, script.direct, script.query)
           [] n = 2 -> creative_refine_prompt(st, script.responses[1])
           [] OTHER -> creative_generate_image(st, script.responses[2])
    ELSE IF script.kind = "product"
    THEN CASE n = 1 -> product_fetch_brand_data(st, script.direct, script.query)
           [] n = 2 -> product_design_poster_layouts(st, script.responses[1])
           [] n = 3 -> product_generate_required_images(st, script.responses[2].ctor,
                                                        script.responses[2].outs)
           [] OTHER -> product_build_canvas_objects(st)
    ELSE CASE n = 1 -> template_fetch_brand_data(st, script.direct, script.query)
           [] n = 2 -> load_template(st, script.responses[1])
           [] n = 3 -> generate_texts(st, script.responses[2])
           [] OTHER -> fill_template(st)

\* (a variant in which the runs of one pipeline share one module-level dict)
run_state_shared(runs, r) ==
    IF runs[1].script.kind = runs[r].script.kind THEN runs[1].st ELSE runs[r].st

\* the state dict a run's stage is given: every handler passes the dict it
\* built itself to ainvoke, and the graph threads that dict through the nodes
run_state(runs, r) == runs[r].st

InitRuns ==
    /\ kind = "runs"
    /\ state \in {[runs |-> <<[script |-> a, st |-> a.init, n |-> 1, raised |-> <<>>],
                             [script |-> b, st |-> b.init, n |-> 1, raised |-> <<>>]>>,
                   module |-> ModuleValues] : a \in Scripts, b \in Scripts}
    /\ pc = "in flight"
    /\ raised = <<>>
    /\ calls = <<>>
    /\ log = <<>>
    /\ response = <<>>

\* one run executes its next stage; log keeps the order the runs took turns
Run_stage ==
    /\ kind = "runs"
    /\ \E r \in 1..2 :
          LET run == state.runs[r]
          IN  /\ run.raised = <<>>
              /\ run.n <= Len(GraphNodes[run.script.kind])
              /\ state' = Bind(run_stage(run.script, run.n, run_state(state.runs, r)),
                               LAMBDA res :
                                  [state EXCEPT !.runs[r] =
                                      IF res.raise # <<>>
                                      THEN [run EXCEPT !.raised = res.raise]
                                      ELSE [run EXCEPT !.st = res.update @@ run.st,
                                                       !.n = run.n + 1]])
              /\ log' = Append(log, r)
    /\ UNCHANGED <<kind, pc, raised, calls, response>>

NextRuns == Run_stage

SpecRuns == InitRuns /\ [][NextRuns]_vars

(***************************************************************************)
(* Properties of the pipelines.                                            *)
(***************************************************************************)
\* the design model's response of this run was a text that is no JSON document
LayoutResponseUnparseable ==
    \E i \in 1..Len(calls) :
        /\ calls[i].node = "design_poster_layouts"
        /\ calls[i].out.o = "content"
        /\ calls[i].out.content.t = "text"
        /\ ~json_loads(strip_code_fence(calls[i].out.content)).ok

\* C1: in every run, once status is failed or completed it never changes
\* again; a product-poster run whose layout design failed does not end
\* completed
C1_StatusIsTerminal ==
    [][state.status \in {"failed", "completed"} => state'.status = state.status]_vars

\* C2: after a stage has set status to failed, no later stage of the run is
\* executed
C2_NoStageAfterFailure ==
    \A i \in 1..Len(log) : log[i].outcome = "failed" => i = Len(log)

ArtifactFields ==
    {"refined_prompt", "poster_layouts", "template_def", "generated_images",
     "generated_texts", "canvas_formats", "filled_templates"}

Artifacts(st) == [f \in ArtifactFields \cap DOMAIN st |-> st[f]]

\* C3: while status is failed, every step of the run leaves every artifact
\* field (refined prompt, layout specification, template definition, image
\* registry, generated texts, output format map) at the value it has
C3_ArtifactsKeptAfterFailure ==
    [][state.status = "failed" => Artifacts(state') = Artifacts(state)]_vars

\* a run in which an early stage failed and the later stages have run
C3_StagesRanAfterFailure ==
    /\ pc = "END"
    /\ \E i \in 1..Len(log) : log[i].outcome = "failed" /\ i + 2 <= Len(log)
    /\ Artifacts(state) \in {Artifacts(product_initial_state(<<>>)),
                             Artifacts(template_initial_state("sale_banner"))}

\* C4: a product-poster run whose layout response is no JSON ends with status
\* failed and a non-empty error string
C4_UnparseableLayoutEndsFailed ==
    (kind = "product" /\ pc = "END" /\ LayoutResponseUnparseable)
        => (state.status = "failed" /\ state.error # <<>> /\ state.error[1] # "")

\* C5: a template run whose template id is not in the store ends with status
\* failed, an error string that mentions the id and an empty format map
C5_MissingTemplateEndsFailed ==
    (kind = "template" /\ pc = "END" /\ state.template_id = "does_not_exist")
        => /\ state.status = "failed"
           /\ state.error # <<>>
           /\ Contains(state.error[1], state.template_id)
           /\ state.filled_templates = <<>>

\* C6: a fault raised by a stage does not leave the run: the run ends with
\* status failed and the fault's description as its error
C6_FaultsEndFailed ==
    (raised # <<>> \/ pc = "raised")
        => /\ pc = "END"
           /\ state.status = "failed"
           /\ "error" \in DOMAIN state
           /\ state.error = raised

\* C7: a run that ended with status failed carries a non-empty error string
C7_FailedCarriesError ==
    (pc = "END" /\ state.status = "failed")
        => ("error" \in DOMAIN state /\ state.error # <<>> /\ state.error[1] # "")

\* C8: the product-poster and template endpoints answer 400 with the error
\* the failing stage recorded for a business failure (template not found,
\* layout JSON unparseable), 500 for a fault that left the pipeline, and
\* success only for a run that ended completed
C8_RouteResponses ==
    (kind \in {"product", "template"} /\ response # <<>>)
        => /\ kind = "product" =>
                \A i \in 1..Len(calls) :
                    (/\ calls[i].node = "design_poster_layouts"
                     /\ calls[i].out.o = "content"
                     /\ calls[i].out.content.t = "text"
                     /\ ~json_loads(strip_code_fence(calls[i].out.content)).ok)
                    => response[1] =
                          [code |-> 400,
                           detail |-> product_design_poster_layouts(
                                          state, calls[i].out).update.error]
           /\ (kind = "template" /\ state.template_id = "does_not_exist")
                => response[1] =
                      [code |-> 400,
                       detail |-> load_template(state, FileMissing).update.error]
           /\ raised # <<>> => response[1].code = 500
           /\ response[1].code = 200 => state.status = "completed"

\* the text holds an http or https URL: the scheme and one more character
\* that is neither white space nor a quote
HasUrl(text) ==
    \E i \in 1..Len(text) : \E scheme \in {"http://", "https://"} :
        /\ StartsWithAt(text, i, scheme)
        /\ i + Len(scheme) <= Len(text)
        /\ Char(text, i + Len(scheme)) \notin WS \cup Quotes

\* the text holds a data URI of an image: data:image/<type>;base64,<payload>
HasDataUri(text) ==
    \E i \in 1..Len(text) : \E j \in i + 12..Len(text) :
        /\ StartsWithAt(text, i, "data:image/")
        /\ \A k \in i + 11..j - 1 : Char(text, k) # ";"
        /\ StartsWithAt(text, j, ";base64,")
        /\ j + 8 <= Len(text)
        /\ Char(text, j + 8) \notin Quotes

\* a response of the image model with no URL, no data URI and no image_url
\* field in the text of its parts
NoImageReference(content) ==
    LET text == creative_content_text(content)
    IN  ~HasUrl(text) /\ ~HasDataUri(text) /\ ~Contains(text, "image_url")

\* C9: in the creative pipeline, a response of the image model (a string or
\* a list of parts) with no URL, no data URI and no image_url field makes the
\* image stage store the fixed placeholder, and the run ends completed
C9_PlaceholderWhenNoImage ==
    \A i \in 1..Len(calls) :
        (/\ calls[i].node = "generate_image"
         /\ calls[i].out.o = "content"
         /\ NoImageReference(calls[i].out.content))
        => /\ pc = "END"
           /\ state.image_url = PyStr(CreativePlaceholder)
           /\ state.status = "completed"

\* a creative run that ended on a list response with no image reference
C9_ListWithoutImage ==
    /\ kind = "creative"
    /\ pc = "END"
    /\ \E i \in 1..Len(calls) :
          /\ calls[i].node = "generate_image"
          /\ calls[i].out.o = "content"
          /\ calls[i].out.content.t = "list"
          /\ Len(calls[i].out.content.parts) = 2
          /\ NoImageReference(calls[i].out.content)
    /\ state.image_url = PyStr(CreativePlaceholder)

\* the prompt-refinement model call of this run faulted
RefineFaulted ==
    \E i \in 1..Len(calls) :
        calls[i].node = "refine_prompt" /\ calls[i].out.o = "invoke_fault"

\* C10: in the creative pipeline, when the prompt-refinement model call
\* faults, the refined prompt is the user's prompt, the status is not set to
\* failed, and the image stage is then executed with that prompt
C10_RefineFallsBackToPrompt ==
    (kind = "creative" /\ RefineFaulted)
        => /\ pc \in {"generate_image", "END"}
           /\ state.refined_prompt = state.prompt
           /\ \A i \in 1..Len(log) :
                 log[i].node = "refine_prompt" => log[i].outcome = "ok"
           /\ pc = "generate_image" => state.status = "processing"
           /\ pc = "END" =>
                 /\ log[Len(log)].node = "generate_image"
                 /\ \A i \in 1..Len(calls) :
                       calls[i].node = "generate_image"
                           => calls[i].prompt = state.prompt

\* a creative run whose refinement call faulted and whose image model was
\* then called with the user's prompt
C10_ImageCalledWithPrompt ==
    /\ kind = "creative"
    /\ RefineFaulted
    /\ pc = "END"
    /\ \E i \in 1..Len(calls) :
          calls[i].node = "generate_image" /\ calls[i].prompt = state.prompt


\* the positions of the text where an http or https URL starts
UrlStarts(text) ==
    {i \in 1..Len(text) : \E scheme \in {"http://", "https://"} :
        /\ StartsWithAt(text, i, scheme)
        /\ i + Len(scheme) <= Len(text)
        /\ Char(text, i + Len(scheme)) \notin WS \cup Quotes}

\* the first URL substring of a text that holds one: from the first start up
\* to the next white space or quote
FirstUrl(text) ==
    LET i == MinOf(UrlStarts(text))
        ends == {e \in i..Len(text) :
                    \A k \in i..e : Char(text, k) \notin WS \cup Quotes}
    IN  Slice(text, i, CHOOSE e \in ends : \A k \in ends : k <= e)

\* the results the two extractions have produced for the drawn response
NormalizerResults ==
    {state[f][1] : f \in {g \in {"creative", "product"} : state[g] # <<>>}}

\* C11: the extraction order is structured decode, then first URL, then
\* first data URI.  For a text with no leading brace that holds a URL the
\* result is the first URL substring, also when a data URI stands before
\* it; a structured decode that fails falls through to the URL; a data URI
\* is the result only when there is no URL
C11_ExtractionOrder ==
    kind = "normalizer" =>
        LET text == creative_content_text(state.content)
        IN  \A r \in NormalizerResults :
              /\ (~StartsWith(text, "{") /\ UrlStarts(text) # {})
                    => r = PyStr(FirstUrl(text))
              /\ (/\ StartsWith(text, "{")
                  /\ Contains(text, "image_url")
                  /\ literal_eval(text) = <<>>
                  /\ UrlStarts(text) # {})
                    => r = PyStr(FirstUrl(text))
              /\ (~StartsWith(text, "{") /\ UrlStarts(text) = {} /\ HasDataUri(text))
                    => (r.t = "str" /\ StartsWith(r.s, "data:image/"))

\* both extractions applied to a text that holds a data URI before its
\* first URL
C11_UrlAfterDataUri ==
    /\ kind = "normalizer"
    /\ state.creative # <<>>
    /\ state.product # <<>>
    /\ LET text == creative_content_text(state.content)
       IN  /\ ~StartsWith(text, "{")
           /\ UrlStarts(text) # {}
           /\ IndexOf(text, "data:image/", 1) \in 1..MinOf(UrlStarts(text)) - 1
           /\ state.creative[1] = PyStr(FirstUrl(text))
           /\ state.product[1] = PyStr(FirstUrl(text))

\* C12 as stated: for every X, a text shaped {'image_url': {'url': 'X'}}
\* or {'image_url': 'X'} yields X, whatever X looks like and whatever URLs
\* the other fields hold
C12_AnyValueWins ==
    kind = "normalizer" =>
        \A shape \in Shapes, x \in ShapeValues :
            state.content = PyStr(ShapedText(shape, x))
                => \A r \in NormalizerResults : r = PyStr(x)

\* C12: for every non-empty X, a text shaped {'image_url': {'url': 'X'}} or
\* {'image_url': 'X'} yields X, whatever X looks like and whatever URLs the
\* other fields hold; for an empty X the structured step yields nothing and
\* the result is the first URL of the whole text, if any
C12_NonEmptyValueWins ==
    kind = "normalizer" =>
        \A shape \in Shapes, x \in ShapeValues :
            state.content = PyStr(ShapedText(shape, x))
                => \A r \in NormalizerResults :
                      r = PyStr(IF x # "" THEN x
                                ELSE IF shape \in {"caption_nested", "caption_flat"}
                                THEN "https://h/other" ELSE "")

\* both extractions applied to a nested structure whose value is no URL
\* and whose caption holds one
C12_ValueBesideOtherUrl ==
    /\ kind = "normalizer"
    /\ state.content = PyStr(ShapedText("caption_nested", "not a url"))
    /\ state.creative = <<PyStr("not a url")>>
    /\ state.product = <<PyStr("not a url")>>


\* C13: a data URI extracted by either pipeline ends at the first quote or
\* white space after it, so the two extractions give the same reference for
\* every response
C13_SameDataUriEnd ==
    kind = "normalizer" =>
        /\ (state.creative # <<>> /\ state.product # <<>>)
              => state.creative = state.product
        /\ \A r \in NormalizerResults :
              (r.t = "str" /\ StartsWith(r.s, "data:image/"))
                  => \A k \in 1..Len(r.s) : Char(r.s, k) \notin WS \cup Quotes


\* what one left-to-right pass over the pieces gives: a token whose key is
\* in the map becomes the mapped value, any other piece stays as it is
RECURSIVE OnePass(_, _, _)
OnePass(pieces, n, placeholders) ==
    IF n > Len(pieces) THEN ""
    ELSE (IF pieces[n].k = "token" /\ pieces[n].s \in DOMAIN placeholders
          THEN placeholders[pieces[n].s]
          ELSE IF pieces[n].k = "token" THEN "{{" \o pieces[n].s \o "}}"
          ELSE pieces[n].s)
         \o OnePass(pieces, n + 1, placeholders)

\* C14: placeholder resolution is one left-to-right pass over the {{key}}
\* tokens: a token with a mapped key becomes the mapped value, a token with
\* an unknown key stays intact, substituted text is not scanned again, a
\* string with no token and a value that is no string come back unchanged
C14_SinglePassResolution ==
    (kind = "placeholder" /\ state.result # <<>>)
        => state.result[1] =
              IF state.value.t # "str" THEN state.value
              ELSE PyStr(OnePass(state.pieces, 1, PlaceholderMap))

\* a resolved string with a token whose value holds a token, a literal and
\* a token with an unknown key
C14_SubstitutedTokenKept ==
    /\ kind = "placeholder"
    /\ state.pieces = <<Token("b"), Lit("Hi "), Token("missing")>>
    /\ state.result = <<PyStr("{{a}}Hi {{missing}}")>>


\* content that is exactly one token {{generated_<role>}}
IsGeneratedToken(content) ==
    /\ StartsWith(content, "{{generated_")
    /\ Len(content) > 14
    /\ Slice(content, Len(content) - 1, Len(content)) = "}}"
    /\ ~Contains(Slice(content, 13, Len(content) - 2), "}")

TokenRole(content) == Slice(content, 13, Len(content) - 2)

\* C15: a text element whose whole content is one token {{generated_<role>}}
\* gets the registry entry of <role>, or "[<role>]" with the token's role when
\* that role was never generated; content that only begins with such a token
\* goes through the generic placeholder resolution
C15_GeneratedTokenText ==
    (kind = "element" /\ state.result # <<>> /\ state.element.type = "text")
        => LET content == state.element.content
               text == state.result[1][1].text
           IN  IF IsGeneratedToken(content)
               THEN text = Get(state.generated_texts, TokenRole(content),
                               "[" \o TokenRole(content) \o "]")
               ELSE text = resolve_str(content,
                               template_placeholders(BrandAcme, state.generated_texts))


\* an image element of role product
IsProductElement(element) ==
    IsDict(element) /\ Get(element, "type", "") = "image"
                    /\ Get(element, "role", "") = "product"

\* a layout without its image elements of role product
WithoutProduct(layout) ==
    IF IsDict(layout) /\ "elements" \in DOMAIN layout /\ IsList(layout.elements)
    THEN [layout EXCEPT !.elements =
             JsonList(SelectSeq(layout.elements.items,
                                LAMBDA element : ~IsProductElement(element)))]
    ELSE layout

LayoutsWithoutProduct(poster_layouts) ==
    [k \in DOMAIN poster_layouts |->
        IF k \in DOMAIN FORMATS THEN WithoutProduct(poster_layouts[k])
        ELSE poster_layouts[k]]

\* the builder's result is what it builds from the layouts without their
\* image elements of role product: none of them gave an object
NoProductObject ==
    state.result[1] = product_build_canvas_objects(
        [state.st EXCEPT !.poster_layouts = LayoutsWithoutProduct(state.st.poster_layouts)])

\* C16 as stated: with no product image supplied, no image element of role
\* product gives an object, whatever the layout, the registry and the brand
C16_NoProductObjectAnyRegistry ==
    (kind = "builder" /\ state.result # <<>> /\ ~Given(state.st.product_image_data))
        => NoProductObject

\* C16: with no product image supplied and no registry entry for the role
\* product, no image element of role product gives an object
C16_NoProductObjectUnbound ==
    (kind = "builder" /\ state.result # <<>> /\ ~Given(state.st.product_image_data)
        /\ "product" \notin DOMAIN state.st.generated_images)
        => NoProductObject

\* a graph built from a layout with a product element, no product image and
\* no registry entry for the role: the headline and the logo only
C16_ProductElementDropped ==
    /\ kind = "builder"
    /\ state.st.product_image_data = <<>>
    /\ state.st.generated_images = [background |-> PyStr(UrlA)]
    /\ state.st.brand_data = BrandAcme
    /\ Get(state.st.poster_layouts, "instagram", <<>>) = LSolid
    /\ Get(state.st.poster_layouts, "story", <<>>) = LImage
    /\ state.result # <<>>
    /\ state.result[1].raise = <<>>
    /\ Len(state.result[1].update.canvas_formats.instagram.objects) = 2


FormatKeys == {"instagram", "story", "facebook"}

GraphFields == {"objects", "background", "width", "height"}

\* the template format a key of the output map stands for
TemplateFormatOf(canvas_key) ==
    CASE canvas_key = "instagram" -> "instagram_post"
      [] canvas_key = "story" -> "instagram_story"
      [] OTHER -> canvas_key

\* C17: the output format map of a completed product-poster or template run
\* has keys among instagram, story and facebook only, a key only where the
\* layout specification (or template) has a non-empty entry for the format,
\* and under each key a whole graph
C17_FormatsOnlyFromEntries ==
    /\ (kind = "product" /\ state.status = "completed")
          => \A k \in DOMAIN state.canvas_formats :
                /\ k \in FormatKeys
                /\ TruthyJson(Get(state.poster_layouts, k, <<>>))
                /\ DOMAIN state.canvas_formats[k] = GraphFields
                /\ state.canvas_formats[k] =
                      product_build_format(k, state.poster_layouts[k],
                          state.generated_images,
                          Get(state.brand_data, "logoUrl",
                              Get(state.brand_data, "logo_url", "")),
                          state.product_image_data).graph
    /\ (kind = "template" /\ state.status = "completed")
          => \A k \in DOMAIN state.filled_templates :
                /\ k \in FormatKeys
                /\ TruthyJson(ItemsGet(Get(state.template_def, "formats", <<>>),
                                       TemplateFormatOf(k), <<>>))
                /\ DOMAIN state.filled_templates[k] = GraphFields

\* a completed product-poster run whose layout specification has an empty
\* facebook entry and no instagram entry: the map holds the story graph only
C17_MissingFormatAbsent ==
    /\ kind = "product"
    /\ state.status = "completed"
    /\ "facebook" \in DOMAIN state.poster_layouts
    /\ ~TruthyJson(state.poster_layouts.facebook)
    /\ "instagram" \notin DOMAIN state.poster_layouts
    /\ DOMAIN state.canvas_formats = {"story"}


\* the full-bleed, non-interactive image object of a format
FullBleedImage(format_key, src) ==
    [type |-> "image", left |-> 0, top |-> 0, src |-> src,
     scaleToWidth |-> FORMATS[format_key].width,
     scaleToHeight |-> FORMATS[format_key].height,
     selectable |-> FALSE, evented |-> FALSE]

\* a product-poster run that reached its end, whose layout response was
\* valid JSON with the one images_to_generate entry of role background, and
\* whose image call returned a bare URL
BackgroundUrlScenario ==
    /\ kind = "product"
    /\ pc = "END"
    /\ Get(state.poster_layouts, "images_to_generate", JsonList(<<>>))
          = JsonList(<<ImgBackground>>)
    /\ \E i \in DOMAIN calls :
          /\ calls[i].node = "generate_required_images"
          /\ calls[i].out = Content(PyStr(UrlA))

\* a layout whose background kind is image
ImageBackground(layout) ==
    IsDict(layout) /\ TruthyJson(layout) /\ Get(layout, "background", "solid") = "image"

\* C18: in that scenario the run ends completed, and every format whose
\* background kind is image has as the first object of its graph the
\* full-bleed non-interactive image object whose source is the URL
C18_BackgroundImageFullBleed ==
    BackgroundUrlScenario
        => /\ state.status = "completed"
           /\ \A k \in FormatKeys :
                 ImageBackground(Get(state.poster_layouts, k, <<>>))
                    => /\ k \in DOMAIN state.canvas_formats
                       /\ state.canvas_formats[k].objects # <<>>
                       /\ state.canvas_formats[k].objects[1]
                             = FullBleedImage(k, PyStr(UrlA))

\* the scenario with an image background for instagram and facebook and a
\* solid one for story
C18_TwoImageBackgrounds ==
    /\ BackgroundUrlScenario
    /\ ImageBackground(Get(state.poster_layouts, "instagram", <<>>))
    /\ ImageBackground(Get(state.poster_layouts, "facebook", <<>>))
    /\ ~ImageBackground(Get(state.poster_layouts, "story", <<>>))
    /\ DOMAIN state.canvas_formats = FormatKeys


\* the image reference the response of one image invocation yields, <<>>
\* when the invocation faulted or its response holds none
ImageReferenceOf(out) ==
    IF out = Content(PyStr(UrlA)) THEN <<PyStr(UrlA)>>
    ELSE IF out = Content(PyStr(DataA \o " trailing")) THEN <<PyStr(DataA)>>
    ELSE <<>>

ImageCalls == {i \in DOMAIN calls : calls[i].node = "generate_required_images"}

\* the image stage of a product-poster run made invocations for a list of
\* images_to_generate entries
ImageStageRan ==
    /\ kind = "product"
    /\ ImageCalls # {}
    /\ \A k \in DOMAIN state.poster_layouts.images_to_generate.items :
          IsDict(state.poster_layouts.images_to_generate.items[k])

\* C19: an images_to_generate entry whose invocation faulted or yielded no
\* image reference has no registry entry, every other entry of the list,
\* before or after it, was invoked and registered, and status is not failed
\* (entries are told apart by their role: the entries of a role that two
\* entries share are the subject of C22)
C19_ImageFaultSkipsOneEntry ==
    ImageStageRan
        => /\ state.status # "failed"
           /\ LET specs == state.poster_layouts.images_to_generate.items
              IN  \A k \in DOMAIN specs :
                     (/\ Get(specs[k], "prompt", "") # ""
                      /\ \A j \in DOMAIN specs : j # k => specs[j].role # specs[k].role)
                        => \E i \in ImageCalls :
                              /\ calls[i].prompt =
                                    enhanced_prompt(state.brand_data, specs[k].prompt)
                              /\ IF ImageReferenceOf(calls[i].out) = <<>>
                                 THEN specs[k].role \notin DOMAIN state.generated_images
                                 ELSE /\ specs[k].role \in DOMAIN state.generated_images
                                      /\ state.generated_images[specs[k].role]
                                            = ImageReferenceOf(calls[i].out)[1]

\* the invocation for the first of two entries faulted, the second entry is
\* registered
C19_SecondRegisteredAfterFault ==
    /\ ImageStageRan
    /\ state.poster_layouts.images_to_generate = JsonList(<<ImgBackground, ImgDecor>>)
    /\ \E i, j \in ImageCalls :
          /\ i < j
          /\ calls[i].out = InvokeFault("quota exceeded")
          /\ calls[j].out = Content(PyStr(UrlA))
    /\ state.generated_images = [decorative |-> PyStr(UrlA)]


\* the stages of each pipeline, in the order of the graph's edges
Stages ==
    [creative |-> <<"fetch_brand_data", "refine_prompt", "generate_image">>,
     product |-> <<"fetch_brand_data", "design_poster_layouts",
                   "generate_required_images", "build_canvas_objects">>,
     template |-> <<"fetch_brand_data", "load_template", "generate_texts",
                    "fill_template">>]

\* the brand stage ran and its lookup failed: the document read faulted or
\* found no record, and so did the query of get_brandkit
BrandLookupFailed ==
    /\ Len(calls) >= 2
    /\ calls[1].node = "fetch_brand_data"
    /\ calls[1].out.o \in {"missing", "fault"}
    /\ calls[2].node = "fetch_brand_data"
    /\ calls[2].out.o \in {"missing", "fault"}

\* C20: after a failed brand lookup the state holds the default profile, the
\* brand stage left status as it was, and the run goes on through the later
\* stages: each is executed in turn, and a run that stops early stops on a
\* fault of a later stage
C20_LookupFailureStoresDefault ==
    BrandLookupFailed
        => /\ state.brand_data = MockBrand(state.brandkit_id)
           /\ Len(log) = 1 => (state.status = "processing" /\ pc = Stages[kind][2])
           /\ \A i \in DOMAIN log : log[i].node = Stages[kind][i]
           /\ pc \notin {"END", "raised"} => pc = Stages[kind][Len(log) + 1]
           /\ pc = "END" => Len(log) = Len(Stages[kind])
           /\ pc = "raised" => Len(log) >= 2

\* a template run that went through all its stages after the document read
\* faulted and the query found no record
C20_RunCompletedOnDefault ==
    /\ BrandLookupFailed
    /\ kind = "template"
    /\ calls[1].out.o = "fault"
    /\ calls[2].out.o = "missing"
    /\ pc = "END"
    /\ state.status = "completed"
    /\ Len(log) = 4


\* the text stage of a template run has been executed
TextStageRan ==
    kind = "template" /\ \E i \in DOMAIN log : log[i].node = "generate_texts"

TextStageReturned ==
    kind = "template"
    /\ \E i \in DOMAIN log : log[i].node = "generate_texts" /\ log[i].outcome # "raised"

TextCalls == {i \in DOMAIN calls : calls[i].node = "generate_texts"}

\* the elements of the k-th format of the state's template
FormatElements(k) ==
    LET format_def == state.template_def.formats[k][2]
    IN  IF IsDict(format_def) /\ IsList(Get(format_def, "elements", JsonList(<<>>)))
        THEN Get(format_def, "elements", JsonList(<<>>)).items
        ELSE <<>>

\* the places <<format, element>> of the text elements that declare a
\* generation prompt and a role
PromptPlaces ==
    IF "formats" \notin DOMAIN state.template_def THEN {}
    ELSE {p \in UNION {{<<f, e>> : e \in DOMAIN FormatElements(f)} :
                          f \in DOMAIN state.template_def.formats} :
             LET element == FormatElements(p[1])[p[2]]
             IN  /\ IsDict(element)
                 /\ Get(element, "type", "") = "text"
                 /\ "prompt" \in DOMAIN element
                 /\ Get(element, "role", "") # ""}

PlaceRole(p) == FormatElements(p[1])[p[2]].role

Before(p, q) == p[1] < q[1] \/ (p[1] = q[1] /\ p[2] < q[2])

\* the first place of every declared role
FirstPlaces ==
    {p \in PromptPlaces :
        \A q \in PromptPlaces : PlaceRole(q) = PlaceRole(p) => ~Before(q, p)}

\* the line of the batch for the element at a place
BatchLine(p) ==
    "- " \o PlaceRole(p) \o ": "
    \o ReplaceAll(FormatElements(p[1])[p[2]].prompt, "{{brand_name}}",
                  Get(state.brand_data, "name", "Brand"))

RECURSIVE LinesLength(_)
LinesLength(places) ==
    IF places = {} THEN 0
    ELSE LET p == CHOOSE x \in places : TRUE
         IN  Len(BatchLine(p)) + 1 + LinesLength(places \ {p})

\* a batch of one line per declared role, that of the role's first element
BatchOfFirstPrompts(batch) ==
    /\ \A p \in FirstPlaces : Contains(batch, BatchLine(p))
    /\ Len(batch) + 1 = LinesLength(FirstPlaces)

\* the text stage took its fault fallback: bracketed texts and an error
TextFaultFallback ==
    /\ state.generated_texts =
          [r \in {PlaceRole(p) : p \in PromptPlaces} |-> "[" \o r \o "]"]
    /\ state.error # <<>>
    /\ state.error[1] \in Faults

\* C21 as stated: at most one text-generation call; exactly one, with one
\* prompt per distinct role (the first met), when a text element declares a
\* prompt and a role; none when none does or the template definition is empty
C21_OneBatchWheneverPrompts ==
    TextStageRan
        => /\ Cardinality(TextCalls) <= 1
           /\ PromptPlaces # {}
                 => /\ Cardinality(TextCalls) = 1
                    /\ \A i \in TextCalls : BatchOfFirstPrompts(calls[i].prompt)
           /\ PromptPlaces = {} => TextCalls = {}

\* C21: at most one text-generation call, whose batch holds one prompt per
\* distinct role (the first met); none when no text element declares a
\* prompt and a role or the template definition is empty; and when the stage
\* returned with such elements declared, it made the call or, the model
\* client having faulted before any call, it took its fault fallback
C21_OneBatchUnlessClientFaults ==
    TextStageRan
        => /\ Cardinality(TextCalls) <= 1
           /\ \A i \in TextCalls : BatchOfFirstPrompts(calls[i].prompt)
           /\ PromptPlaces = {} => TextCalls = {}
           /\ (PromptPlaces # {} /\ TextStageReturned)
                 => \/ Cardinality(TextCalls) = 1
                    \/ TextCalls = {} /\ TextFaultFallback

\* a run whose template declares the role headline twice and the role
\* tagline twice: one call, with the first headline prompt and a tagline one
C21_RolesBatchedOnce ==
    /\ TextStageRan
    /\ Cardinality(PromptPlaces) = 4
    /\ Cardinality(FirstPlaces) = 2
    /\ Cardinality(TextCalls) = 1
    /\ \A i \in TextCalls :
          /\ Contains(calls[i].prompt, "- headline: Headline for ")
          /\ ~Contains(calls[i].prompt, "A second headline")


\* the image stage of a product-poster run has been executed on a list of
\* images_to_generate entries
ImageStageDone ==
    /\ kind = "product"
    /\ \E i \in DOMAIN log : log[i].node = "generate_required_images"
    /\ IsList(Get(state.poster_layouts, "images_to_generate", JsonNull))
    /\ state.poster_layouts.images_to_generate.items # <<>>

\* the image invocations of the run, in the order they were made
ImageCallSeq == SelectSeq(calls, LAMBDA c : c.node = "generate_required_images")

\* the entries from entry k on that the loop invokes the model for: those
\* with a prompt, up to the first entry that is no dict
RECURSIVE PromptedFrom(_, _)
PromptedFrom(specs, k) ==
    IF k > Len(specs) \/ ~IsDict(specs[k]) THEN <<>>
    ELSE (IF Get(specs[k], "prompt", "") # "" THEN <<specs[k]>> ELSE <<>>)
         \o PromptedFrom(specs, k + 1)

\* the invocations follow the entries one to one, in list order
CallsFollow(entries) ==
    /\ Len(ImageCallSeq) = Len(entries)
    /\ \A k \in DOMAIN entries :
          ImageCallSeq[k].prompt =
              enhanced_prompt(state.brand_data, Get(entries[k], "prompt", ""))

\* C22 as stated: one invocation for each entry, in list order, each merged
\* before the next starts, so that of two entries sharing a role the later
\* one's reference is the registry's
C22_OneCallPerEntry ==
    ImageStageDone
        => LET specs == state.poster_layouts.images_to_generate.items
           IN  /\ CallsFollow(specs)
               /\ \A j, k \in DOMAIN specs :
                     (j < k /\ Get(specs[j], "role", "unknown")
                                  = Get(specs[k], "role", "unknown"))
                        => /\ ImageReferenceOf(ImageCallSeq[k].out) # <<>>
                           /\ state.generated_images[Get(specs[k], "role", "unknown")]
                                 = ImageReferenceOf(ImageCallSeq[k].out)[1]

\* the entries of a role whose invocation yielded a reference
Yielding(entries, role) ==
    {k \in DOMAIN entries :
        /\ Get(entries[k], "role", "unknown") = role
        /\ ImageReferenceOf(ImageCallSeq[k].out) # <<>>}

\* C22: when the client could be constructed, one invocation is made for
\* each entry that has a prompt, in list order, up to an entry that is no
\* dict; each response is merged before the next invocation, so the registry
\* holds for a role the reference of the last entry of that role that
\* yielded one, and no entry for a role none of whose entries yielded one
C22_OneCallPerPromptedEntry ==
    ImageStageDone
        => LET entries == PromptedFrom(state.poster_layouts.images_to_generate.items, 1)
           IN  \/ ImageCallSeq = <<>> /\ DOMAIN state.generated_images = {}
               \/ /\ CallsFollow(entries)
                  /\ DOMAIN state.generated_images =
                        {Get(entries[k], "role", "unknown") : k \in
                            UNION {Yielding(entries, Get(entries[j], "role", "unknown")) :
                                      j \in DOMAIN entries}}
                  /\ \A role \in DOMAIN state.generated_images :
                        \E k \in Yielding(entries, role) :
                           /\ \A j \in Yielding(entries, role) : j <= k
                           /\ state.generated_images[role]
                                 = ImageReferenceOf(ImageCallSeq[k].out)[1]

\* two entries of the role background, both invocations yielded a
\* reference: the registry holds the second one
C22_LaterReferenceKept ==
    /\ ImageStageDone
    /\ state.poster_layouts.images_to_generate.items
          = <<ImgBackground, ImgBackgroundAgain>>
    /\ Len(ImageCallSeq) = 2
    /\ ImageCallSeq[1].out = Content(PyStr(UrlA))
    /\ ImageCallSeq[2].out = Content(PyStr(DataA \o " trailing"))
    /\ state.generated_images = [background |-> PyStr(DataA)]


\* what a run reaches alone from stage n on
RECURSIVE Alone(_, _, _)
Alone(script, st, n) ==
    IF n > Len(GraphNodes[script.kind]) THEN [st |-> st, raised |-> <<>>]
    ELSE Bind(run_stage(script, n, st), LAMBDA res :
             IF res.raise # <<>> THEN [st |-> st, raised |-> res.raise]
             ELSE Alone(script, res.update @@ st, n + 1))

RunEnded(run) == run.raised # <<>> \/ run.n > Len(GraphNodes[run.script.kind])

BuilderLogo ==
    Get(state.st.brand_data, "logoUrl", Get(state.st.brand_data, "logo_url", ""))

\* the source the precedence gives an image element of a role, <<>> for none
BoundSource(role) ==
    IF role = "logo" /\ BuilderLogo # "" THEN <<PyStr(BuilderLogo)>>
    ELSE IF role = "product" /\ Given(state.st.product_image_data)
    THEN <<PyStr(state.st.product_image_data[1])>>
    ELSE IF role \in DOMAIN state.st.generated_images
    THEN <<state.st.generated_images[role]>>
    ELSE <<>>

\* the objects the elements from entry k on are to give, in layout order:
\* an image element one object with its bound source or none, any other
\* element what the builder emits for it
RECURSIVE BoundObjects(_, _)
BoundObjects(elements, k) ==
    IF k > Len(elements) THEN <<>>
    ELSE (IF Get(elements[k], "type", "") = "image"
          THEN (IF BoundSource(Get(elements[k], "role", "")) = <<>> THEN <<>>
                ELSE <<OptionalKeys(elements[k], {"scaleToWidth", "scaleToHeight"}) @@
                       [type |-> "image",
                        left |-> Get(elements[k], "left", 0),
                        top |-> Get(elements[k], "top", 0),
                        src |-> BoundSource(Get(elements[k], "role", ""))[1]]>>)
          ELSE product_element_objects(elements[k], state.st.generated_images,
                                       BuilderLogo, state.st.product_image_data))
         \o BoundObjects(elements, k + 1)

BuilderReturned == kind = "builder" /\ state.result # <<>> /\ state.result[1].raise = <<>>

\* C24: every image object of every graph the builder returns has a source
\* that is not empty, and the objects after those of the background are, in
\* layout order, those of the elements, an image element bound by the
\* precedence logo, product image, registry, or left out when none applies
C24_ImageSourcePrecedence ==
    BuilderReturned
        => \A k \in DOMAIN state.result[1].update.canvas_formats :
              LET graph == state.result[1].update.canvas_formats[k]
                  layout == state.st.poster_layouts[k]
                  bg == product_background(layout, FORMATS[k].width, FORMATS[k].height,
                                           state.st.generated_images)
              IN  /\ \A i \in DOMAIN graph.objects :
                        graph.objects[i].type = "image"
                           => Truthy(graph.objects[i].src)
                  /\ graph.objects =
                        bg.objects \o BoundObjects(layout.elements.items, 1)

\* a graph with the logo from the brand and the product element bound to the
\* supplied product image although the registry has an entry for the role
C24_ProductImageBeforeRegistry ==
    /\ BuilderReturned
    /\ state.st.generated_images = [product |-> PyStr(UrlA)]
    /\ Given(state.st.product_image_data)
    /\ state.st.brand_data = BrandAcme
    /\ "instagram" \in DOMAIN state.result[1].update.canvas_formats
    /\ Get(state.st.poster_layouts, "instagram", <<>>) = LSolid
    /\ LET objects == state.result[1].update.canvas_formats.instagram.objects
       IN  /\ Len(objects) = 3
           /\ objects[2].src = PyStr("https://cdn/logo.png")
           /\ objects[3].src = PyStr(state.st.product_image_data[1])


\* the layouts of a builder state all of whose elements are rect elements
RectLayouts ==
    {k \in DOMAIN state.result[1].update.canvas_formats :
        \A i \in DOMAIN state.st.poster_layouts[k].elements.items :
            LET element == state.st.poster_layouts[k].elements.items[i]
            IN  IsDict(element) /\ Get(element, "type", "") = "rect"}

\* C25: the rectangle emitted for a rect element that declares a corner
\* radius has rx and ry set to one value, the rectangle of an element that
\* declares none has neither, and an opacity of 0 is kept
C25_UniformCornerRadius ==
    BuilderReturned
        => \A k \in RectLayouts :
              LET elements == state.st.poster_layouts[k].elements.items
                  objects == state.result[1].update.canvas_formats[k].objects
                  first == Len(objects) - Len(elements)
              IN  \A i \in DOMAIN elements :
                     LET obj == objects[first + i]
                     IN  /\ obj.type = "rect"
                         /\ Get(elements[i], "rx", 0) # 0
                               => /\ {"rx", "ry"} \subseteq DOMAIN obj
                                  /\ obj.rx = obj.ry
                         /\ "rx" \notin DOMAIN elements[i]
                               => {"rx", "ry"} \cap DOMAIN obj = {}
                         /\ Get(elements[i], "opacity", 1) = 0
                               => ("opacity" \in DOMAIN obj /\ obj.opacity = 0)


\* C26: every graph of the final output map of a product-poster or template
\* run has the width and height of its format, whatever the layout
\* specification or the template declares or omits
C26_FixedFormatSize ==
    /\ (kind = "product" /\ pc = "END")
          => \A k \in DOMAIN state.canvas_formats :
                /\ state.canvas_formats[k].width = FORMATS[k].width
                /\ state.canvas_formats[k].height = FORMATS[k].height
    /\ (kind = "template" /\ pc = "END")
          => \A k \in DOMAIN state.filled_templates :
                /\ state.filled_templates[k].width = <<FORMATS[k].width>>
                /\ state.filled_templates[k].height = <<FORMATS[k].height>>


\* a stage of the run set status to failed: the layout design of a
\* product-poster run, the template load of a template run
StageFailed(node) ==
    \E i \in DOMAIN log : log[i].node = node /\ log[i].outcome = "failed"

ModelCallsAfter(node) ==
    {i \in DOMAIN calls :
        /\ calls[i].node \in {"generate_required_images", "generate_texts"}
        /\ calls[i].node # node}

\* C27: after the layout design of a product-poster run or the template load
\* of a template run set status to failed, the run makes no model call: the
\* image stage and the text stage return without one
C27_NoModelCallAfterFailure ==
    /\ (kind = "product" /\ StageFailed("design_poster_layouts"))
          => /\ ModelCallsAfter("design_poster_layouts") = {}
             /\ DOMAIN Get(state, "generated_images", <<>>) = {}
    /\ (kind = "template" /\ StageFailed("load_template"))
          => /\ ModelCallsAfter("load_template") = {}
             /\ DOMAIN Get(state, "generated_texts", <<>>) = {}

\* a product-poster run whose design call was made and failed, whose image
\* stage was then executed, and whose only model call is the design call
C27_ImageStageIdleAfterFailure ==
    /\ kind = "product"
    /\ StageFailed("design_poster_layouts")
    /\ \E i \in DOMAIN log :
          log[i].node = "generate_required_images" /\ log[i].outcome = "ok"
    /\ \E i \in DOMAIN calls : calls[i].node = "design_poster_layouts"
    /\ ModelCallsAfter("design_poster_layouts") = {}


\* the source of an image element after placeholder resolution, for the
\* brand of the state: logo_url is always in the map, an asset url only when
\* the brand has that asset
ResolvedSource(source) ==
    LET assets == Get(state.brand_data, "assetUrls", Get(state.brand_data, "assets", <<>>))
    IN  IF source = "{{logo_url}}"
        THEN Get(state.brand_data, "logoUrl", Get(state.brand_data, "logo_url", ""))
        ELSE IF source = "{{asset_urls.0}}" /\ Len(assets) >= 1 THEN assets[1]
        ELSE source

\* the sources of the image objects the elements from entry k on are to give
RECURSIVE EmittedSources(_, _)
EmittedSources(elements, k) ==
    IF k > Len(elements) THEN <<>>
    ELSE (IF Get(elements[k], "type", "") = "image"
             /\ ResolvedSource(Get(elements[k], "source", "")) # ""
          THEN <<ResolvedSource(Get(elements[k], "source", ""))>>
          ELSE <<>>)
         \o EmittedSources(elements, k + 1)

RECURSIVE ImageSources(_, _)
ImageSources(objects, k) ==
    IF k > Len(objects) THEN <<>>
    ELSE (IF objects[k].type = "image" THEN <<objects[k].src>> ELSE <<>>)
         \o ImageSources(objects, k + 1)

TemplateCompleted == kind = "template" /\ pc = "END" /\ state.status = "completed"

\* C28: in every format of a completed template run the image objects are,
\* in order, those of the image elements whose source is not empty after
\* placeholder resolution: {{logo_url}} of a brand without logo resolves to
\* the empty string and gives no object, a token without entry in the map
\* stays as it is and is the source of the object
C28_ImageDroppedIffEmptySource ==
    TemplateCompleted
        => \A k \in DOMAIN state.filled_templates :
              ImageSources(state.filled_templates[k].objects, 1) =
                 EmittedSources(
                    ItemsGet(state.template_def.formats, TemplateFormatOf(k), <<>>)
                       .elements.items, 1)

\* a brand without logo and without assets: the facebook graph has no image
\* object for its {{logo_url}} element, the instagram graph an image object
\* whose source is the token {{asset_urls.0}}
C28_LogoDroppedAssetTokenKept ==
    /\ TemplateCompleted
    /\ state.brand_data = BrandBare
    /\ DOMAIN state.filled_templates = {"facebook", "instagram", "story"}
    /\ ItemsGet(state.template_def.formats, "facebook", <<>>) = FFacebook
    /\ ImageSources(state.filled_templates.facebook.objects, 1) = <<>>
    /\ ImageSources(state.filled_templates.instagram.objects, 1) = <<"{{asset_urls.0}}">>


=============================================================================
